---- MODULE Spec2Model ----
(***************************************************************************)
(* peretran: the parallel provider orchestrator                            *)
(* (internal/orchestrator/orchestrator.go), the translate pipeline's use   *)
(* of it (cmd/translate.go) and the memoization and checkpoint store       *)
(* (package store).                                                        *)
(*                                                                         *)
(* Durations are in milliseconds.  An attempt is identified by its         *)
(* 1-based ordinal "try" (the value of the provider's call counter when    *)
(* the call returns); the loop variable "attempt" of translateWithRetry    *)
(* is 0-based as in the source.                                            *)
(***************************************************************************)
EXTENDS Integers, Sequences, FiniteSets, TLC

\* ---------------------------------------------------------------- bounds
\* Largest number of services handed to New.
MaxServices == 2
\* Largest explicitly configured MaxAttempts (0 stands for "unset").
MaxTries == 2

\* ------------------------------------------------------------- constants
DefaultMaxAttempts == 3
DefaultRetryDelay == 500
\* The explicit RetryDelay the orchestrator tests configure.
TestRetryDelay == 10

VARIABLES
    services,     \* len(o.services)
    config,       \* o.config after New's defaulting
    ctxDone,      \* the caller's ctx has been cancelled
    mainPc,       \* position of the goroutine running Execute
    spawned,      \* iterations of Execute's launch loop completed
    wg,           \* sync.WaitGroup counter
    closerPc,     \* position of the goroutine that closes ch
    ch,           \* buffered channel of outcomes, oldest first
    chClosed,     \* close(ch) has happened
    result,       \* the OrchestratorResult under construction
    tasks,        \* per-service worker goroutine (translateWithRetry frame)
    reported,     \* services whose worker sent a result, in sending order
    pipelineErr   \* what translateCmd.RunE made of the OrchestratorResult

\* The store: one *Store over one database file.
VARIABLES
    now,          \* the latest reading of time.Now(), as UnixNano
    memory,       \* rows of table translation_memory
    stage1,       \* rows of table stage1_cache
    checkpoints,  \* rows of table csv_checkpoints
    args,         \* the store operation called last, with its arguments
    ret,          \* what that operation returned
    nops,         \* store operations called so far
    hits,         \* per key: GetCachedTranslation hits since it was last saved
    cells,        \* rows of table csv_checkpoint_cells
    savedCells,   \* per cell: the text of the latest SaveCSVCell that returned
    inFlight,     \* a GetCachedTranslation between its SELECT and its UPDATE
    csv,          \* the frame of csvCmd.RunE, one run of the csv command
    translate     \* the frame of translateCmd.RunE, one run of translate

\* The database file, with the histories kept of it and the call that is
\* between two of its statements.
database == <<now, memory, stage1, checkpoints, hits, cells, savedCells,
              inFlight>>

storeVars == <<database, args, ret, nops, csv, translate>>

vars == <<services, config, ctxDone, mainPc, spawned, wg, closerPc, ch,
          chClosed, result, tasks, reported, pipelineErr, storeVars>>

NoCall == [op |-> "none"]
NoRet == [err |-> FALSE]

\* No csv command is running.
CsvIdle == [pc |-> "idle", runs |-> 0]

\* No translate command is running.
TranslateIdle == [pc |-> "idle", runs |-> 0]

\* The tables right after NewStore has run migrate on a new database file.
NewDatabase ==
    /\ now = 0
    /\ memory = {}
    /\ stage1 = {}
    /\ checkpoints = {}
    /\ hits = <<>>
    /\ cells = {}
    /\ savedCells = <<>>
    /\ inFlight = NoCall

StoreOpened ==
    /\ NewDatabase
    /\ args = NoCall
    /\ ret = NoRet
    /\ nops = 0
    /\ csv = CsvIdle
    /\ translate = TranslateIdle

Providers == 1..MaxServices
Configured == 1..services

\* What one svc.Translate call can return, as far as translateWithRetry
\* reads it:
\*   "hard"   err != nil: a transport/API error, a timeout of callCtx, or the
\*            "Not Implemented Yet" error of a stub service (which also
\*            returns a result with Error set; err is tested first and the
\*            result is then never read)
\*   "errstr" err == nil and res.Error != ""
\*   "text"   err == nil and res.Error == ""
Kinds == {"hard", "errstr", "text"}

NilRes == [svc |-> 0, try |-> 0, valid |-> FALSE]
NilErr == [svc |-> 0, kind |-> "nil", try |-> 0]

\* OrchestratorConfig defaulting done by New.
New(raw) ==
    [MaxAttempts    |-> IF raw.MaxAttempts < 1 THEN DefaultMaxAttempts
                        ELSE raw.MaxAttempts,
     RetryDelay     |-> IF raw.RetryDelay <= 0 THEN DefaultRetryDelay
                        ELSE raw.RetryDelay,
     SkipValidation |-> raw.SkipValidation]

\* o.validator != nil
ValidatorSet == ~config.SkipValidation

IdleTask ==
    [pc |-> "idle", attempt |-> 0, delay |-> 0,
     lastResult |-> NilRes, lastErr |-> NilErr,
     calls |-> 0, firstText |-> 0, lastKind |-> "none", lastValid |-> FALSE,
     waits |-> <<>>, res |-> NilRes, err |-> NilErr]

EmptyResult == [Results |-> <<>>, Errors |-> <<>>, Succeeded |-> 0, Failed |-> 0]

InitCommon ==
    /\ ctxDone = FALSE
    /\ mainPc = "idle"
    /\ spawned = 0
    /\ wg = 0
    /\ closerPc = "idle"
    /\ ch = <<>>
    /\ chClosed = FALSE
    /\ result = EmptyResult
    /\ tasks = [p \in Providers |-> IdleTask]
    /\ reported = <<>>
    /\ pipelineErr = "none"

\* Any caller of orchestrator.New: zero or more services, any config.
Init ==
    /\ services \in 0..MaxServices
    /\ \E ma \in 0..MaxTries, rd \in {0, TestRetryDelay}, sv \in BOOLEAN :
         config = New([MaxAttempts |-> ma, RetryDelay |-> rd, SkipValidation |-> sv])
    /\ InitCommon
    /\ StoreOpened

\* ------------------------------------------------------------- Execute
\* Execute is entered: result and ch are allocated.
Execute ==
    /\ mainPc = "idle"
    /\ mainPc' = "spawn"
    /\ result' = EmptyResult
    /\ ch' = <<>>
    /\ UNCHANGED storeVars
    /\ UNCHANGED <<services, config, ctxDone, spawned, wg, closerPc, chClosed,
                   tasks, reported, pipelineErr>>

\* One iteration of the launch loop: wg.Add(1); go func(service) {...}(svc).
SpawnTask ==
    /\ mainPc = "spawn"
    /\ spawned < services
    /\ spawned' = spawned + 1
    /\ wg' = wg + 1
    /\ tasks' = [tasks EXCEPT ![spawned + 1] =
                    [@ EXCEPT !.pc = "call", !.delay = config.RetryDelay]]
    /\ UNCHANGED storeVars
    /\ UNCHANGED <<services, config, ctxDone, mainPc, closerPc, ch, chClosed,
                   result, reported, pipelineErr>>

\* go func() { wg.Wait(); close(ch) }() and entry into the range loop.
SpawnCloser ==
    /\ mainPc = "spawn"
    /\ spawned = services
    /\ closerPc' = "waiting"
    /\ mainPc' = "range"
    /\ UNCHANGED storeVars
    /\ UNCHANGED <<services, config, ctxDone, spawned, wg, ch, chClosed,
                   result, tasks, reported, pipelineErr>>

\* (variant) the closer does not wait for the workers.
WaitReturnsAtOnce == TRUE

\* wg.Wait() returns: every wg.Add(1) has been matched by a wg.Done().
WaitReturns == wg = 0

\* wg.Wait() returns and ch is closed.
CloserClose ==
    /\ closerPc = "waiting"
    /\ WaitReturns
    /\ chClosed' = TRUE
    /\ closerPc' = "done"
    /\ UNCHANGED storeVars
    /\ UNCHANGED <<services, config, ctxDone, mainPc, spawned, wg, ch, result,
                   tasks, reported, pipelineErr>>

\* ---------------------------------------------------- translateWithRetry
\* (variant) the loop gives up one attempt early.
LoopStopsEarly(attempt) == attempt < config.MaxAttempts - 1

\* The for-loop condition of the retry loop.
LoopContinues(attempt) == attempt < config.MaxAttempts

\* (variant) the delay is not doubled.
NextDelayConstant(d) == d

\* delay *= 2 after a completed inter-attempt wait.
NextDelay(d) == d * 2

\* The select of the inter-attempt wait.  RetryDelay is positive (New), so
\* the timer channel is empty when the select is entered; a blocked select
\* is completed by whichever of close(ctx.Done) and the timer comes first.
SelectCancelled == ctxDone
\* (variant) the timer case is taken although ctx is done.
SelectTimerIgnoresCtx == TRUE
SelectTimer == ~ctxDone

\* (variant) a valid result is only accepted on the final attempt.
ClassifyRetriesValid(kind, valid, attempt) ==
    IF kind = "hard" THEN "err"
    ELSE IF kind = "errstr" THEN "resErr"
    ELSE IF attempt < config.MaxAttempts - 1 THEN "invalidRetry"
    ELSE IF ValidatorSet /\ ~valid THEN "invalidFinal"
    ELSE "ok"

\* (variant) a validation failure is never retried.
ClassifyInvalidNoRetry(kind, valid, attempt) ==
    IF kind = "hard" THEN "err"
    ELSE IF kind = "errstr" THEN "resErr"
    ELSE IF ValidatorSet /\ ~valid THEN "invalidFinal"
    ELSE "ok"

\* What the loop body does with the return of svc.Translate on 0-based
\* attempt number "attempt".
Classify(kind, valid, attempt) ==
    IF kind = "hard" THEN "err"
    ELSE IF kind = "errstr" THEN "resErr"
    ELSE IF ValidatorSet /\ ~valid
         THEN IF attempt < config.MaxAttempts - 1 THEN "invalidRetry"
              ELSE "invalidFinal"
    ELSE "ok"

\* (variant) the validation-failed result is forgotten after the loop.
ExhaustedDropsLastResult(lastResult, lastErr) ==
    [res |-> NilRes, err |-> lastErr]

\* The code after the loop: all attempts used up.
Exhausted(lastResult, lastErr) ==
    IF lastResult # NilRes THEN [res |-> lastResult, err |-> NilErr]
    ELSE [res |-> NilRes, err |-> lastErr]

\* translateWithRetry returns (res, err): its locals are gone, the worker
\* holds the pair it is about to send.
Returned(t, res, err) ==
    [t EXCEPT !.pc = "done", !.attempt = 0, !.delay = 0,
              !.lastResult = NilRes, !.lastErr = NilErr,
              !.res = res, !.err = err]

\* The frame of translateWithRetry for service p after svc.Translate has
\* returned (kind, valid) and the loop body has run up to the next wait or
\* to the function's return.
AfterCall(t, p, kind, valid) ==
    LET try == t.calls + 1
        res == [svc |-> p, try |-> try, valid |-> valid]
        c   == Classify(kind, valid, t.attempt)
        lastErr1 ==
            CASE c = "err"    -> [svc |-> p, kind |-> "hard", try |-> try]
              [] c = "resErr" -> [svc |-> p, kind |-> "errstr", try |-> try]
              [] c \in {"invalidRetry", "invalidFinal"} ->
                                 [svc |-> p, kind |-> "validation", try |-> try]
              [] OTHER        -> t.lastErr
        lastResult1 ==
            IF c \in {"invalidRetry", "invalidFinal"} THEN res ELSE t.lastResult
        g == [t EXCEPT !.calls = try,
                       !.firstText = IF kind = "text" /\ @ = 0 THEN try ELSE @,
                       !.lastKind = kind,
                       !.lastValid = valid,
                       !.lastErr = lastErr1,
                       !.lastResult = lastResult1]
    IN  IF c \in {"ok", "invalidFinal"}
        THEN Returned(g, res, NilErr)
        ELSE IF LoopContinues(t.attempt + 1)
        THEN [g EXCEPT !.attempt = @ + 1, !.pc = "wait"]
        ELSE LET r == Exhausted(lastResult1, lastErr1)
             IN  Returned(g, r.res, r.err)

\* ch <- outcome{res, err}; wg.Done().  ch has capacity len(o.services) and
\* each worker sends once, so the send does not block.
Report(p, t) ==
    /\ ch' = Append(ch, [res |-> t.res, err |-> t.err])
    /\ reported' = IF t.err = NilErr THEN Append(reported, p) ELSE reported
    /\ wg' = wg - 1

\* One svc.Translate call of worker p and the loop body that follows it.
Attempt(p) ==
    /\ tasks[p].pc = "call"
    /\ \E kind \in Kinds, valid \in BOOLEAN :
         /\ valid => kind = "text"
         /\ LET t == AfterCall(tasks[p], p, kind, valid)
            IN  /\ tasks' = [tasks EXCEPT ![p] = t]
                /\ IF t.pc = "done" THEN Report(p, t)
                   ELSE UNCHANGED <<ch, reported, wg>>
    /\ UNCHANGED storeVars
    /\ UNCHANGED <<services, config, ctxDone, mainPc, spawned, closerPc,
                   chClosed, result, pipelineErr>>

\* case <-time.After(delay): the wait ends, delay doubles, next call.
WaitTimer(p) ==
    /\ tasks[p].pc = "wait"
    /\ SelectTimer
    /\ tasks' = [tasks EXCEPT ![p] =
                    [@ EXCEPT !.pc = "call",
                              !.waits = Append(@, tasks[p].delay),
                              !.delay = NextDelay(@)]]
    /\ UNCHANGED storeVars
    /\ UNCHANGED <<services, config, ctxDone, mainPc, spawned, wg, closerPc,
                   ch, chClosed, result, reported, pipelineErr>>

\* case <-ctx.Done(): return nil, ctx.Err().
WaitCancelled(p) ==
    /\ tasks[p].pc = "wait"
    /\ SelectCancelled
    /\ LET t == Returned(tasks[p], NilRes,
                         [svc |-> p, kind |-> "cancelled", try |-> 0])
       IN  /\ tasks' = [tasks EXCEPT ![p] = t]
           /\ Report(p, t)
    /\ UNCHANGED storeVars
    /\ UNCHANGED <<services, config, ctxDone, mainPc, spawned, closerPc,
                   chClosed, result, pipelineErr>>

\* The caller cancels ctx (before or during Execute).
Cancel ==
    /\ ~ctxDone
    /\ mainPc # "returned"
    /\ ctxDone' = TRUE
    /\ UNCHANGED storeVars
    /\ UNCHANGED <<services, config, mainPc, spawned, wg, closerPc, ch,
                   chClosed, result, tasks, reported, pipelineErr>>

\* ------------------------------------------------ Execute's range loop
\* (variant) an error is appended but not counted.
AggregateErrorsUncounted(r, oc) ==
    IF oc.err # NilErr
    THEN [r EXCEPT !.Errors = Append(@, oc.err)]
    ELSE [r EXCEPT !.Results = Append(@, oc.res), !.Succeeded = @ + 1]

\* (variant) results are kept in configuration order.
AggregateConfigOrder(r, oc) ==
    IF oc.err # NilErr
    THEN [r EXCEPT !.Errors = Append(@, oc.err), !.Failed = @ + 1]
    ELSE LET lo == SelectSeq(r.Results, LAMBDA x : x.svc < oc.res.svc)
             hi == SelectSeq(r.Results, LAMBDA x : x.svc > oc.res.svc)
         IN  [r EXCEPT !.Results = lo \o <<oc.res>> \o hi,
                       !.Succeeded = @ + 1]

\* The body of "for oc := range ch".
Aggregate(r, oc) ==
    IF oc.err # NilErr
    THEN [r EXCEPT !.Errors = Append(@, oc.err), !.Failed = @ + 1]
    ELSE [r EXCEPT !.Results = Append(@, oc.res), !.Succeeded = @ + 1]

\* (variant) the loop also ends at the first success.
RangeDoneFirstSuccess == (chClosed /\ ch = <<>>) \/ result.Succeeded >= 1

\* The range loop ends: ch is closed and drained.
RangeDone == chClosed /\ ch = <<>>

Receive ==
    /\ mainPc = "range"
    /\ ch # <<>>
    /\ result' = Aggregate(result, Head(ch))
    /\ ch' = Tail(ch)
    /\ UNCHANGED storeVars
    /\ UNCHANGED <<services, config, ctxDone, mainPc, spawned, wg, closerPc,
                   chClosed, tasks, reported, pipelineErr>>

Return ==
    /\ mainPc = "range"
    /\ RangeDone
    /\ mainPc' = "returned"
    /\ UNCHANGED storeVars
    /\ UNCHANGED <<services, config, ctxDone, spawned, wg, closerPc, ch,
                   chClosed, result, tasks, reported, pipelineErr>>

Next ==
    \/ Execute
    \/ SpawnTask
    \/ SpawnCloser
    \/ CloserClose
    \/ \E p \in Providers : Attempt(p)
    \/ \E p \in Providers : WaitTimer(p)
    \/ \E p \in Providers : WaitCancelled(p)
    \/ Cancel
    \/ Receive
    \/ Return

Spec == Init /\ [][Next]_vars

\* ------------------------------------------------- translate pipeline
\* translateCmd.RunE after orch.Execute returns: "all translation services
\* failed" when result.Succeeded == 0.
RunECheck ==
    /\ mainPc = "returned"
    /\ pipelineErr = "none"
    /\ pipelineErr' = IF result.Succeeded = 0 THEN "all_failed" ELSE "ok"
    /\ UNCHANGED storeVars
    /\ UNCHANGED <<services, config, ctxDone, mainPc, spawned, wg, closerPc,
                   ch, chClosed, result, tasks, reported>>

\* translateCmd.RunE: ctx is context.Background(), buildServices returns at
\* least one service, and the config sets only Timeout, MinServices and
\* MaxAttempts (the --max-retries flag).
InitPipeline ==
    /\ services \in 1..MaxServices
    /\ \E maxRetries \in 0..MaxTries :
         config = New([MaxAttempts |-> maxRetries, RetryDelay |-> 0,
                       SkipValidation |-> FALSE])
    /\ InitCommon
    /\ StoreOpened

NextPipeline ==
    \/ Execute
    \/ SpawnTask
    \/ SpawnCloser
    \/ CloserClose
    \/ \E p \in Providers : Attempt(p)
    \/ \E p \in Providers : WaitTimer(p)
    \/ Receive
    \/ Return
    \/ RunECheck

SpecPipeline == InitPipeline /\ [][NextPipeline]_vars

\* =====================================================================
\* Properties
\* =====================================================================
InResults(p) == \E i \in DOMAIN result.Results : result.Results[i].svc = p
InErrors(p) == \E i \in DOMAIN result.Errors : result.Errors[i].svc = p
CountResults(p) == Cardinality({i \in DOMAIN result.Results : result.Results[i].svc = p})
CountErrors(p) == Cardinality({i \in DOMAIN result.Errors : result.Errors[i].svc = p})
\* Some attempt of p returned a result with no error and an empty Error.
Produced(p) == tasks[p].firstText # 0
\* The latest attempt of p returned a text that failed validation.
LastInvalid(p) ==
    /\ ValidatorSet
    /\ tasks[p].lastKind = "text"
    /\ ~tasks[p].lastValid
\* The latest attempt of p is the first one that returned a text, and the
\* text is one the protocol accepts (valid, or unvalidated, or final).
CleanAccepted(p) ==
    /\ tasks[p].lastKind = "text"
    /\ tasks[p].firstText = tasks[p].calls
    /\ \/ config.SkipValidation
       \/ tasks[p].lastValid
       \/ tasks[p].calls = config.MaxAttempts

\* C1: when Execute returns, every configured provider has contributed
\* exactly one outcome: Succeeded + Failed = number of services,
\* len(Results) = Succeeded and len(Errors) = Failed.
C1_OneOutcomePerProvider ==
    mainPc = "returned" =>
        /\ result.Succeeded + result.Failed = services
        /\ Len(result.Results) = result.Succeeded
        /\ Len(result.Errors) = result.Failed
        /\ \A p \in Configured : CountResults(p) + CountErrors(p) = 1

C1_Witness ==
    /\ mainPc = "returned"
    /\ services = 2
    /\ result.Succeeded = 1
    /\ result.Failed = 1

\* C2: a provider one of whose attempts returned a translation is
\* aggregated as a success carrying a result, and a provider is aggregated
\* as a failure only if none of its attempts returned one -- whatever the
\* attempt outcomes and whenever the cancellation signal fires.
C2_NeverDropsProduced ==
    mainPc = "returned" =>
        \A p \in Configured :
            /\ Produced(p) => (InResults(p) /\ ~InErrors(p))
            /\ InErrors(p) => ~Produced(p)

\* C3: once a provider's attempt k is the first to return a text and that
\* text is accepted, the provider has been invoked exactly k times, is never
\* invoked again, and the run counts exactly one success for it.
C3_StopsAtFirstAccepted ==
    /\ [](\A p \in Configured :
            CleanAccepted(p) =>
                /\ tasks[p].pc = "done"
                /\ tasks[p].err = NilErr
                /\ tasks[p].res = [svc |-> p, try |-> tasks[p].calls,
                                   valid |-> tasks[p].lastValid]
                /\ mainPc = "returned" =>
                       (CountResults(p) = 1 /\ CountErrors(p) = 0))
    /\ [][\A p \in Providers :
            CleanAccepted(p) => tasks'[p].calls = tasks[p].calls]_vars

C3_Witness ==
    /\ mainPc = "returned"
    /\ ~ctxDone
    /\ \E p \in Configured :
         /\ CleanAccepted(p)
         /\ tasks[p].calls = 3
         /\ tasks[p].lastValid
         /\ CountResults(p) = 1

\* C4: with validation enabled, a result failing validation while attempts
\* remain sends the worker to the wait before the next attempt, and a result
\* failing validation on the final attempt is returned as a success: it is
\* in Results, counted in Succeeded, and the provider is not in Errors.
C4_ValidationRetryThenAccept ==
    /\ [][\A p \in Providers :
            (/\ tasks'[p].calls = tasks[p].calls + 1
             /\ ValidatorSet
             /\ tasks'[p].lastKind = "text"
             /\ ~tasks'[p].lastValid)
            => IF tasks'[p].calls < config.MaxAttempts
               THEN /\ tasks'[p].pc = "wait"
                    /\ tasks'[p].attempt = tasks'[p].calls
               ELSE /\ tasks'[p].pc = "done"
                    /\ tasks'[p].err = NilErr
                    /\ tasks'[p].res = [svc |-> p, try |-> config.MaxAttempts,
                                        valid |-> FALSE]]_vars
    /\ [](mainPc = "returned" =>
            \A p \in Configured :
                (LastInvalid(p) /\ tasks[p].calls = config.MaxAttempts)
                => /\ \E i \in DOMAIN result.Results :
                        result.Results[i] = [svc |-> p,
                                             try |-> config.MaxAttempts,
                                             valid |-> FALSE]
                   /\ ~InErrors(p)
                   /\ result.Succeeded = Len(result.Results)
                   /\ result.Failed = Len(result.Errors))

C4_Witness ==
    /\ mainPc = "returned"
    /\ config.MaxAttempts = 3
    /\ \E p \in Configured :
         /\ LastInvalid(p)
         /\ tasks[p].firstText = 1
         /\ tasks[p].calls = 3
         /\ InResults(p)

\* C5: a provider all of whose attempts ended in a hard error or in a
\* provider-reported error string, with no cancellation, has been invoked
\* exactly MaxAttempts times when its worker is done, is a failure, and the
\* error reported (and appended to Errors) is that of the last attempt.
C5_ExhaustedReturnsLastError ==
    \A p \in Configured :
        (tasks[p].pc = "done" /\ ~Produced(p) /\ ~ctxDone)
        => /\ tasks[p].calls = config.MaxAttempts
           /\ tasks[p].res = NilRes
           /\ tasks[p].err = [svc |-> p, kind |-> tasks[p].lastKind,
                              try |-> config.MaxAttempts]
           /\ mainPc = "returned" =>
                  /\ \E i \in DOMAIN result.Errors :
                        result.Errors[i] = tasks[p].err
                  /\ CountErrors(p) = 1
                  /\ ~InResults(p)

C5_Witness ==
    /\ mainPc = "returned"
    /\ ~ctxDone
    /\ config.MaxAttempts = 3
    /\ \E p \in Configured :
         /\ ~Produced(p)
         /\ tasks[p].calls = 3
         /\ tasks[p].lastKind = "errstr"
         /\ InErrors(p)

\* C6: Execute has not returned while any worker is still in its retry
\* loop or any outcome is not yet aggregated.
C6_ReturnsAfterAllReported ==
    mainPc = "returned" =>
        /\ spawned = services
        /\ wg = 0
        /\ ch = <<>>
        /\ \A p \in Configured :
              /\ tasks[p].pc = "done"
              /\ InResults(p) \/ InErrors(p)

C6_Witness ==
    /\ mainPc = "returned"
    /\ services = 2
    /\ \E p, q \in Configured :
         /\ tasks[p].calls = 1
         /\ InResults(p)
         /\ tasks[q].calls = 3
         /\ reported # <<>>
         /\ reported[1] = p

\* C7: a worker in the inter-attempt wait with the cancellation signal set
\* (set on entry, or fired during the wait) makes no further call; its next
\* step returns the cancellation error, and it is aggregated as a failure.
C7_CancelInterruptsWait ==
    /\ [][\A p \in Providers :
            (tasks[p].pc = "wait" /\ ctxDone)
            => /\ tasks'[p].calls = tasks[p].calls
               /\ \/ tasks'[p] = tasks[p]
                  \/ /\ tasks'[p].pc = "done"
                     /\ tasks'[p].res = NilRes
                     /\ tasks'[p].err.kind = "cancelled"]_vars
    /\ [](\A p \in Configured :
            tasks[p].err.kind = "cancelled"
            => /\ tasks[p].pc = "done"
               /\ mainPc = "returned" => (InErrors(p) /\ ~InResults(p)))

C7_Witness ==
    /\ mainPc = "returned"
    /\ \E p \in Configured :
         /\ tasks[p].err.kind = "cancelled"
         /\ tasks[p].calls = 1
         /\ config.MaxAttempts = 3
         /\ InErrors(p)

\* C8: the translate pipeline reports "all translation services failed"
\* only when every configured provider was invoked MaxAttempts times and no
\* attempt of any provider returned a translation.
C8_FailsOnlyWhenAllAttemptsFail ==
    pipelineErr = "all_failed" =>
        \A p \in Configured :
            /\ tasks[p].calls = config.MaxAttempts
            /\ ~Produced(p)

C8_Witness ==
    /\ pipelineErr = "all_failed"
    /\ services = 2
    /\ config.MaxAttempts = 3

\* C9: Results is in the order in which the workers reported, not in
\* configuration order.
C9_ResultsInCompletionOrder ==
    mainPc = "returned" =>
        [i \in DOMAIN result.Results |-> result.Results[i].svc] = reported

C9_Witness ==
    /\ mainPc = "returned"
    /\ Len(result.Results) = 2
    /\ result.Results[1].svc = 2
    /\ result.Results[2].svc = 1

\* C10: no wait precedes a provider's first attempt, and the wait that
\* precedes its 0-based attempt a >= 1 is RetryDelay * 2^(a-1), for each
\* provider separately.
C10_ExponentialBackoff ==
    \A p \in Providers :
        /\ Len(tasks[p].waits) =
              IF tasks[p].pc = "call" THEN tasks[p].calls
              ELSE IF tasks[p].calls = 0 THEN 0
              ELSE tasks[p].calls - 1
        /\ \A a \in DOMAIN tasks[p].waits :
              tasks[p].waits[a] = config.RetryDelay * 2^(a - 1)

C10_Witness ==
    /\ services = 2
    /\ tasks[1].waits = <<config.RetryDelay, 2 * config.RetryDelay>>
    /\ tasks[1].calls = 3
    /\ tasks[2].waits = <<config.RetryDelay>>
    /\ tasks[2].calls = 2

\* ======================================================================
\* The memoization and checkpoint store (package store).
\*
\* A Go string is its sequence of bytes; texts are UTF-8.  The texts the
\* model handles are made of code points below U+0800 (one or two bytes).
\* Timestamps and generated identities are readings of one clock.
\* ======================================================================

\* ---------------------------------------------------------------- bounds
\* Largest number of store operations in one run.
MaxOps == 4
\* Largest length, in code points, of the strings handed to levenshtein.
MaxStrLen == 3
\* Largest number of store operations that the runs of the csv and the
\* translate command call.
MaxCommandOps == 7
\* Largest number of runs of the csv and the translate command on one
\* database.
MaxRuns == 2

\* ------------------------------------------------------------- constants
maxFuzzyRunes == 1000

\* ------------------------------------------------------------ UTF-8 text
\* string(rune): the UTF-8 encoding of one code point.
EncodeRune(cp) ==
    IF cp < 128 THEN <<cp>>
    ELSE IF cp < 2048 THEN <<192 + (cp \div 64), 128 + (cp % 64)>>
    ELSE <<224 + (cp \div 4096), 128 + ((cp \div 64) % 64), 128 + (cp % 64)>>

\* string([]rune)
RECURSIVE EncodeRunes(_)
EncodeRunes(rs) ==
    IF rs = <<>> THEN <<>>
    ELSE EncodeRune(Head(rs)) \o EncodeRunes(Tail(rs))

\* []rune(s): the code points of a valid UTF-8 string.
RECURSIVE Runes(_)
Runes(s) ==
    IF s = <<>> THEN <<>>
    ELSE IF s[1] < 128 THEN <<s[1]>> \o Runes(Tail(s))
    ELSE <<(s[1] - 192) * 64 + (s[2] - 128)>> \o Runes(SubSeq(s, 3, Len(s)))

\* len([]rune(s)): every byte that is not a continuation byte starts a rune.
RuneCount(s) == Cardinality({i \in 1..Len(s) : s[i] < 128 \/ s[i] >= 192})

\* unicode.IsSpace, on the ASCII white space the texts contain.
IsSpace(c) == c \in {9, 10, 11, 12, 13, 32}

RECURSIVE TrimStart(_, _)
TrimStart(s, i) ==
    IF i <= Len(s) /\ IsSpace(s[i]) THEN TrimStart(s, i + 1) ELSE i

RECURSIVE TrimStop(_, _, _)
TrimStop(s, start, stop) ==
    IF stop >= start /\ IsSpace(s[stop]) THEN TrimStop(s, start, stop - 1) ELSE stop

\* strings.TrimSpace
TrimSpace(s) ==
    LET start == TrimStart(s, 1)
        stop == TrimStop(s, start, Len(s))
    IN SubSeq(s, start, stop)

\* Canonical composition of a starter with a following U+0301 (combining
\* acute accent), for the starters the texts contain; 0 if the pair does
\* not compose.
Composed(starter, mark) ==
    IF mark # 769 THEN 0
    ELSE IF starter = 97 THEN 225      \* a + acute = U+00E1
    ELSE IF starter = 101 THEN 233     \* e + acute = U+00E9
    ELSE 0

RECURSIVE ComposeRunes(_)
ComposeRunes(rs) ==
    IF Len(rs) < 2 THEN rs
    ELSE IF Composed(rs[1], rs[2]) # 0
         THEN <<Composed(rs[1], rs[2])>> \o ComposeRunes(SubSeq(rs, 3, Len(rs)))
         ELSE <<rs[1]>> \o ComposeRunes(Tail(rs))

\* norm.NFC.String: a string without combining marks is returned as it is;
\* otherwise each starter is composed with the mark that follows it.  (The
\* precomposed letters of the texts are their own NFC.)
NFC(s) ==
    IF \A i \in 1..Len(s) : s[i] # 204 THEN s
    ELSE EncodeRunes(ComposeRunes(Runes(s)))

normalizeText(text) == NFC(TrimSpace(text))

\* ------------------------------------------------- edit distance, fuzzy
Min3(a, b, c) == IF a <= b /\ a <= c THEN a ELSE IF b <= c THEN b ELSE c

\* The inner loop of levenshtein: curr[1..j-1] is filled, fill the rest.
\* Row index k of the source is index k+1 here.
RECURSIVE LevRow(_, _, _, _, _, _)
LevRow(ra, rb, i, j, prev, curr) ==
    IF j > Len(rb) THEN curr
    ELSE LET v == IF ra[i] = rb[j] THEN prev[j]
                  ELSE Min3(prev[j + 1], prev[j], curr[j]) + 1
         IN LevRow(ra, rb, i, j + 1, prev, Append(curr, v))

\* The outer loop of levenshtein: rows 1..i-1 are done and prev is the last.
RECURSIVE LevRows(_, _, _, _)
LevRows(ra, rb, i, prev) ==
    IF i > Len(ra) THEN prev[Len(rb) + 1]
    ELSE LevRows(ra, rb, i + 1, LevRow(ra, rb, i, 1, prev, <<i>>))

levenshteinBytes(a, b) ==
    IF Len(a) = 0 THEN Len(b)
    ELSE IF Len(b) = 0 THEN Len(a)
    ELSE LevRows(a, b, 1, [j \in 1..(Len(b) + 1) |-> j - 1])

levenshtein(a, b) ==
    LET ra == Runes(a)
        rb == Runes(b)
    IN IF Len(ra) = 0 THEN Len(rb)
       ELSE IF Len(rb) = 0 THEN Len(ra)
       ELSE LevRows(ra, rb, 1, [j \in 1..(Len(rb) + 1) |-> j - 1])

\* A float64 in [0,1] that the store computes or is handed, as the fraction
\* n/d with d > 0.  The thresholds of the model are dyadic, so that float64
\* arithmetic on them and on the similarities they tie with is exact.
Frac(n, d) == [n |-> n, d |-> d]
FracLess(x, y) == x.n * y.d < y.n * x.d
FracEq(x, y) == x.n * y.d = y.n * x.d
One == Frac(1, 1)
Zero == Frac(0, 1)

Max2(a, b) == IF a > b THEN a ELSE b

\* 1 - levenshtein(a, b) / max(len(a), len(b)) in runes; 1 for equal strings,
\* two empty ones included.
stringSimilarity(a, b) ==
    IF a = b THEN One
    ELSE LET la == RuneCount(a)
             lb == RuneCount(b)
             maxLen == Max2(la, lb)
         IN IF maxLen = 0 THEN One
            ELSE Frac(maxLen - levenshtein(a, b), maxLen)

\* --------------------------------------- levenshtein, stringSimilarity
\* The orchestrator while only the store is exercised: no service, idle.
NoOrchestrator ==
    /\ services = 0
    /\ config = New([MaxAttempts |-> 0, RetryDelay |-> 0, SkipValidation |-> FALSE])
    /\ InitCommon

orchestratorVars == <<services, config, ctxDone, mainPc, spawned, wg, closerPc,
                      ch, chClosed, result, tasks, reported, pipelineErr>>

\* Code points of the strings compared: a, b (one byte each) and U+00E9
\* (two bytes).
Alphabet == {97, 98, 233}

RECURSIVE RunesUpTo(_)
RunesUpTo(n) ==
    IF n = 0 THEN {<<>>}
    ELSE LET shorter == RunesUpTo(n - 1)
         IN shorter \cup {Append(x, c) : x \in shorter, c \in Alphabet}

\* The two functions are called on every pair of strings of at most
\* MaxStrLen code points.
InitLev ==
    /\ NoOrchestrator
    /\ NewDatabase
    /\ csv = CsvIdle
    /\ translate = TranslateIdle
    /\ \E x \in RunesUpTo(MaxStrLen), y \in RunesUpTo(MaxStrLen) :
         args = [op |-> "input", ra |-> x, rb |-> y,
                 a |-> EncodeRunes(x), b |-> EncodeRunes(y)]
    /\ ret = NoRet
    /\ nops = 0

CallLevenshtein ==
    /\ args.op = "input"
    /\ args' = [args EXCEPT !.op = "levenshtein"]
    /\ ret' = [err |-> FALSE, d |-> levenshtein(args.a, args.b)]
    /\ nops' = nops + 1
    /\ UNCHANGED <<database, csv, translate>>
    /\ UNCHANGED orchestratorVars

CallStringSimilarity ==
    /\ args.op = "input"
    /\ args' = [args EXCEPT !.op = "stringSimilarity"]
    /\ ret' = [err |-> FALSE, sim |-> stringSimilarity(args.a, args.b)]
    /\ nops' = nops + 1
    /\ UNCHANGED <<database, csv, translate>>
    /\ UNCHANGED orchestratorVars

NextLev ==
    \/ CallLevenshtein
    \/ CallStringSimilarity

SpecLev == InitLev /\ [][NextLev]_vars

\* ------------------------------------------------------- store inputs
\* The texts handed to the store.  TextAE is "a" followed by U+00E9;
\* TextAEraw is the same text as a caller may hand it over: surrounded by
\* white space and with the accent as the combining mark U+0301.
TextAE == EncodeRunes(<<97, 233>>)
TextAEraw == <<32>> \o EncodeRunes(<<97, 101, 769>>) \o <<10>>
TextAB == <<97, 98>>
TextAC == <<97, 99>>
\* Texts of maxFuzzyRunes code points and of one more, and the latter with
\* white space around it.
Text1000 == [i \in 1..maxFuzzyRunes |-> 97]
LongText == [i \in 1..(maxFuzzyRunes + 1) |-> 97]
LongTextRaw == <<32>> \o LongText \o <<10>>

LangPairs == {<<"en", "uk">>, <<"en", "de">>}

Half == Frac(1, 2)

\* What the texts above are once surrounding white space is trimmed and
\* the text is in normalization form C.
Canonical(x) ==
    IF x = TextAEraw THEN TextAE
    ELSE IF x = LongTextRaw THEN LongText
    ELSE x

\* ------------------------------------------------- translation memory
\* History: the hits of GetCachedTranslation on a key since the key was last
\* written by SaveToMemory, for the keys written so far.
Counted(a, r) ==
    LET key == <<Canonical(a.sourceText), a.sourceLang, a.targetLang>>
    IN IF a.op = "SaveToMemory"
       THEN [k \in DOMAIN hits \cup {key} |-> IF k = key THEN 0 ELSE hits[k]]
       ELSE IF a.op = "GetCachedTranslation" /\ r.found /\ key \in DOMAIN hits
       THEN [hits EXCEPT ![key] = @ + 1]
       ELSE hits

\* History: the cells SaveCSVCell has written, each with the text of the
\* latest call for it that returned.
Recorded(a, r) ==
    LET cell == <<a.checkpointID, a.rowIdx, a.colIdx>>
    IN IF a.op = "SaveCSVCell" /\ ~r.err
       THEN [k \in DOMAIN savedCells \cup {cell} |->
               IF k = cell THEN a.translatedText ELSE savedCells[k]]
       ELSE savedCells

\* ------------------------------------------------ the csv command frame
\* checkpointID == "": the run has no checkpoint.
NoId == -1

\* The run did this for the cell it is at (history): "lookup", "execute"
\* (orch.Execute returned a result), "failed" (orch.Execute returned none),
\* "saveMemory", "saveCell".
Noted(f, what) == [f EXCEPT !.events = @ \cup {<<what, f.rowIdx, f.colIdx>>}]

\* out[rowIdx][colIdx] = text
Put(f, text) == [f EXCEPT !.out[f.rowIdx + 1][f.colIdx + 1] = text]

\* continue: the inner loop goes to the next cell of the row, and the outer
\* loop to the next row after the last cell.
Advance(f) ==
    IF f.colIdx + 1 < Len(f.records[f.rowIdx + 1])
    THEN [f EXCEPT !.colIdx = @ + 1, !.pc = "loop"]
    ELSE [f EXCEPT !.rowIdx = @ + 1, !.colIdx = 0, !.pc = "loop"]

\* if checkpointID != "" { _ = db.SaveCSVCell(...) }
CheckpointOrAdvance(f) ==
    IF f.checkpointID # NoId THEN [f EXCEPT !.pc = "saveCell"] ELSE Advance(f)

\* The cache hit is ignored and the cell goes to the providers.
AfterLookupIgnoresHit(f, r) == Noted([f EXCEPT !.pc = "execute"], "lookup")

\* The cell after its cache check: cacheErr == nil && found, or not.
AfterLookup(f, r) ==
    IF ~r.err /\ r.found
    THEN CheckpointOrAdvance(
             Noted([Put(f, r.text) EXCEPT !.translated = r.text], "lookup"))
    ELSE Noted([f EXCEPT !.pc = "execute"], "lookup")

\* The csv command continues with what the operation it called returned.
Resumed(a, r) ==
    CASE csv.pc = "getCheckpoint" ->
           IF r.err THEN [csv EXCEPT !.pc = "failed"]
           ELSE [csv EXCEPT !.checkpointID = csv.resume, !.pc = "getCells"]
      [] csv.pc = "getCells" ->
           [csv EXCEPT !.completedCells = r.cells, !.pc = "loop"]
      [] csv.pc = "createCheckpoint" ->
           [csv EXCEPT !.checkpointID = r.id, !.pc = "loop"]
      [] csv.pc = "lookup" -> AfterLookup(csv, r)
      [] csv.pc = "saveMemory" ->
           CheckpointOrAdvance(Noted(csv, "saveMemory"))
      [] csv.pc = "saveCell" -> Advance(Noted(csv, "saveCell"))
      [] csv.pc = "complete" -> [csv EXCEPT !.pc = "done"]
      [] OTHER -> csv

\* ------------------------------------------ the translate command frame
\* The run did this for its input (history): "lookup", "hit", "fuzzy",
\* "fuzzyHit", "execute", "failed", "saveMemory", "saveStage1".
Did(f, what) == [f EXCEPT !.events = @ \cup {what}]

\* return writeOutput(outputFile, cached, ...)
WriteOutput(f, text) == [f EXCEPT !.output = text, !.pc = "done"]

\* The fuzzy cache check follows the exact one if fuzzyThreshold > 0.
AfterExactMiss(f) ==
    [f EXCEPT !.pc = IF FracLess(Zero, f.fuzzyThreshold)
                     THEN "fuzzy" ELSE "execute"]

\* The exact cache hit is ignored.
AfterExactIgnoresHit(f, r) == AfterExactMiss(Did(f, "lookup"))

\* The input after the exact cache check: cacheErr == nil && found, or not.
AfterExact(f, r) ==
    IF ~r.err /\ r.found
    THEN WriteOutput(Did(Did(f, "lookup"), "hit"), r.text)
    ELSE AfterExactMiss(Did(f, "lookup"))

\* The translate command continues with what the operation it called
\* returned.
TranslateResumed(a, r) ==
    CASE translate.pc = "lookup" -> AfterExact(translate, r)
      [] translate.pc = "fuzzy" ->
           IF ~r.err /\ r.found
           THEN WriteOutput(Did(Did(translate, "fuzzy"), "fuzzyHit"), r.text)
           ELSE [Did(translate, "fuzzy") EXCEPT !.pc = "execute"]
      [] translate.pc = "saveMemory" ->
           [Did(translate, "saveMemory") EXCEPT
              !.pc = IF translate.useRefine THEN "saveStage1" ELSE "write"]
      [] translate.pc = "saveStage1" ->
           [Did(translate, "saveStage1") EXCEPT !.pc = "write"]
      [] OTHER -> translate

\* The run may call one more store operation.
Ready ==
    nops < (IF csv.pc = "idle" /\ translate.pc = "idle"
            THEN MaxOps ELSE MaxCommandOps)

\* One store operation is called and returns: a its call, r its results.
\* The database executes every statement (no I/O error is modelled).
Call(a, r) ==
    /\ inFlight' = inFlight
    /\ nops' = nops + 1
    /\ args' = a
    /\ ret' = r
    /\ hits' = Counted(a, r)
    /\ savedCells' = Recorded(a, r)
    /\ csv' = Resumed(a, r)
    /\ translate' = TranslateResumed(a, r)
    /\ UNCHANGED orchestratorVars

\* What time.Now() can return to an operation: the clock may or may not
\* have advanced since the previous reading.
Readings == {now, now + 1}

\* UNIQUE(source_text, source_lang, target_lang) of translation_memory.
MemKey(r) == <<r.source_text, r.source_lang, r.target_lang>>

\* UNIQUE(source_text, source_lang, target_lang, service_used) of stage1_cache.
Stage1Key(r) == <<r.source_text, r.source_lang, r.target_lang, r.service_used>>

\* INSERT OR REPLACE: the rows that conflict with the new one on the primary
\* key or on the unique key are deleted, then the new row is inserted.  key
\* gives the table's UNIQUE columns of each row.
InsertOrReplace(table, row, key) ==
    {r \in table : r.id # row.id /\ key[r] # key[row]} \cup {row}

NotFound == [text |-> "", found |-> FALSE, err |-> FALSE]
Found(text) == [text |-> text, found |-> TRUE, err |-> FALSE]
Done == [err |-> FALSE]

\* The UPDATE of GetCachedTranslation, applied to one row.
HitUpdateNoCount(r, t) == [r EXCEPT !.last_used = t]

HitUpdate(r, t) == [r EXCEPT !.usage_count = @ + 1, !.last_used = t]

\* The test GetCachedTranslation makes on the row it has selected.
ServedStale(r) == TRUE

Served(r) == ~r.invalidated

GetCachedTranslation(t, sourceText, sourceLang, targetLang) ==
    LET key == <<normalizeText(sourceText), sourceLang, targetLang>>
        a == [op |-> "GetCachedTranslation", sourceText |-> sourceText,
              sourceLang |-> sourceLang, targetLang |-> targetLang]
        selected == {r \in memory : MemKey(r) = key}
    IN \/ /\ Ready
          /\ selected = {}
          /\ Call(a, NotFound)
          /\ UNCHANGED <<now, memory, stage1, checkpoints, cells>>
       \/ Ready /\ \E r \in selected :
            IF ~Served(r)
            THEN /\ Call(a, NotFound)
                 /\ UNCHANGED <<now, memory, stage1, checkpoints, cells>>
            ELSE /\ t \in Readings
                 /\ now' = t
                 /\ memory' = {IF MemKey(x) = key THEN HitUpdate(x, t) ELSE x :
                                 x \in memory}
                 /\ Call(a, Found(r.final_text))
                 /\ UNCHANGED <<stage1, checkpoints, cells>>

\* The row SaveToMemory writes.
NewMemoryRowRawText(t, sourceText, sourceLang, targetLang, finalText, draftText, serviceUsed) ==
    [id |-> t, source_text |-> sourceText,
     source_lang |-> sourceLang, target_lang |-> targetLang,
     final_text |-> finalText, draft_text |-> draftText,
     service_used |-> serviceUsed, usage_count |-> 1,
     invalidated |-> FALSE, last_used |-> t, created_at |-> t]

NewMemoryRow(t, sourceText, sourceLang, targetLang, finalText, draftText, serviceUsed) ==
    [id |-> t, source_text |-> normalizeText(sourceText),
     source_lang |-> sourceLang, target_lang |-> targetLang,
     final_text |-> finalText, draft_text |-> draftText,
     service_used |-> serviceUsed, usage_count |-> 1,
     invalidated |-> FALSE, last_used |-> t, created_at |-> t]

SaveToMemory(t, sourceText, sourceLang, targetLang, finalText, draftText, serviceUsed) ==
    LET row == NewMemoryRow(t, sourceText, sourceLang, targetLang,
                            finalText, draftText, serviceUsed)
    IN /\ Ready
       /\ t \in Readings
       /\ now' = t
       /\ memory' = InsertOrReplace(memory, row, [r \in memory \cup {row} |-> MemKey(r)])
       /\ Call([op |-> "SaveToMemory", sourceText |-> sourceText,
                sourceLang |-> sourceLang, targetLang |-> targetLang,
                finalText |-> finalText, draftText |-> draftText,
                serviceUsed |-> serviceUsed, id |-> t], Done)
       /\ UNCHANGED <<stage1, checkpoints, cells>>

\* UPDATE translation_memory SET invalidated = TRUE WHERE id = ?
InvalidatedRows(table, id) ==
    {IF r.id = id THEN [r EXCEPT !.invalidated = TRUE] ELSE r : r \in table}

InvalidateMemory(id) ==
    /\ Ready
    /\ memory' = InvalidatedRows(memory, id)
    /\ Call([op |-> "InvalidateMemory", id |-> id], Done)
    /\ UNCHANGED <<now, stage1, checkpoints, cells>>

\* DELETE FROM translation_memory WHERE id = ?
RemainingRows(table, id) == {r \in table : r.id # id}

DeleteMemory(id) ==
    /\ Ready
    /\ memory' = RemainingRows(memory, id)
    /\ Call([op |-> "DeleteMemory", id |-> id], Done)
    /\ UNCHANGED <<now, stage1, checkpoints, cells>>

ClearMemory ==
    /\ Ready
    /\ memory' = {}
    /\ Call([op |-> "ClearMemory"], [n |-> Cardinality(memory), err |-> FALSE])
    /\ UNCHANGED <<now, stage1, checkpoints, cells>>

RECURSIVE SumUsage(_)
SumUsage(rows) ==
    IF rows = {} THEN 0
    ELSE LET r == CHOOSE x \in rows : TRUE
         IN r.usage_count + SumUsage(rows \ {r})

Stats ==
    /\ Ready
    /\ Call([op |-> "Stats"],
            [TotalEntries   |-> Cardinality(memory),
             ActiveEntries  |-> Cardinality({r \in memory : ~r.invalidated}),
             InvalidEntries |-> Cardinality({r \in memory : r.invalidated}),
             TotalUsage     |-> SumUsage(memory),
             err            |-> FALSE])
    /\ UNCHANGED <<now, memory, stage1, checkpoints, cells>>

\* All orders in which a query can deliver the rows of a set.
Orders(rows) ==
    {f \in [1..Cardinality(rows) -> rows] : \A r \in rows : \E i \in DOMAIN f : f[i] = r}

\* ORDER BY last_used DESC
ByLastUsedDesc(f) == \A i, j \in DOMAIN f : i < j => f[i].last_used >= f[j].last_used

ListMemory ==
    Ready /\ \E f \in Orders(memory) :
        /\ ByLastUsedDesc(f)
        /\ Call([op |-> "ListMemory"],
                [results |-> [i \in DOMAIN f |->
                                [ID |-> f[i].id, SourceText |-> f[i].source_text,
                                 SourceLang |-> f[i].source_lang,
                                 TargetLang |-> f[i].target_lang,
                                 FinalText |-> f[i].final_text,
                                 ServiceUsed |-> f[i].service_used,
                                 UsageCount |-> f[i].usage_count,
                                 Invalidated |-> f[i].invalidated,
                                 LastUsed |-> f[i].last_used]],
                 err |-> FALSE])
        /\ UNCHANGED <<now, memory, stage1, checkpoints, cells>>

\* ------------------------------------------------------- fuzzy lookup
Abs(n) == IF n < 0 THEN 0 - n ELSE n

\* (variant) a candidate whose length bound only just reaches the threshold
\* is skipped as well.
SkippedAtThreshold(qLen, srcLen, threshold) ==
    LET maxL == Max2(qLen, srcLen)
    IN maxL > 0 /\ ~FracLess(threshold, Frac(maxL - Abs(qLen - srcLen), maxL))

\* The length pre-filter: the candidate is skipped.
Skipped(qLen, srcLen, threshold) ==
    LET maxL == Max2(qLen, srcLen)
    IN maxL > 0 /\ FracLess(Frac(maxL - Abs(qLen - srcLen), maxL), threshold)

\* The candidate replaces the best match so far.
Better(score, threshold, bestScore) ==
    ~FracLess(score, threshold) /\ FracLess(bestScore, score)

\* The scan loop of FuzzyGetCachedTranslation over the rows f[i..], with
\* best = (bestScore, bestFinal) so far.
RECURSIVE FuzzyScan(_, _, _, _, _)
FuzzyScan(f, i, normalized, threshold, best) ==
    IF i > Len(f) THEN best
    ELSE LET srcText == f[i].source_text
             score == stringSimilarity(normalized, srcText)
         IN IF Skipped(RuneCount(normalized), RuneCount(srcText), threshold)
            THEN FuzzyScan(f, i + 1, normalized, threshold, best)
            ELSE IF Better(score, threshold, best.bestScore)
            THEN FuzzyScan(f, i + 1, normalized, threshold,
                           [bestScore |-> score, bestFinal |-> f[i].final_text])
            ELSE FuzzyScan(f, i + 1, normalized, threshold, best)

\* threshold <= 0, or the query is too long to scan for.
RefusedNever(normalized, threshold) == FALSE

Refused(normalized, threshold) ==
    \/ ~FracLess(Zero, threshold)
    \/ RuneCount(normalized) > maxFuzzyRunes

\* WHERE source_lang = ? AND target_lang = ? AND NOT invalidated
FuzzyCandidates(sourceLang, targetLang) ==
    {r \in memory : r.source_lang = sourceLang /\ r.target_lang = targetLang
                    /\ ~r.invalidated}

FuzzyGetCachedTranslation(sourceText, sourceLang, targetLang, threshold) ==
    LET normalized == normalizeText(sourceText)
        a == [op |-> "FuzzyGetCachedTranslation", sourceText |-> sourceText,
              sourceLang |-> sourceLang, targetLang |-> targetLang,
              threshold |-> threshold, scanned |-> <<>>]
    IN /\ Ready
       /\ IF Refused(normalized, threshold)
          THEN Call(a, NotFound)
          ELSE \E f \in Orders(FuzzyCandidates(sourceLang, targetLang)) :
                 LET best == FuzzyScan(f, 1, normalized, threshold,
                                       [bestScore |-> Zero, bestFinal |-> ""])
                 IN Call([a EXCEPT !.scanned = [i \in DOMAIN f |-> f[i].id]],
                         IF best.bestFinal # "" THEN Found(best.bestFinal)
                         ELSE NotFound)
       /\ UNCHANGED <<now, memory, stage1, checkpoints, cells>>

\* ------------------------------------------------------ stage-1 cache
SaveToStage1Cache(t, sourceText, sourceLang, targetLang, draftText, serviceUsed) ==
    LET row == [id |-> t, source_text |-> normalizeText(sourceText),
                source_lang |-> sourceLang, target_lang |-> targetLang,
                draft_text |-> draftText, service_used |-> serviceUsed,
                created_at |-> t, last_used |-> t]
    IN /\ Ready
       /\ t \in Readings
       /\ now' = t
       /\ stage1' = InsertOrReplace(stage1, row, [r \in stage1 \cup {row} |-> Stage1Key(r)])
       /\ Call([op |-> "SaveToStage1Cache", sourceText |-> sourceText,
                sourceLang |-> sourceLang, targetLang |-> targetLang,
                draftText |-> draftText, serviceUsed |-> serviceUsed, id |-> t],
               Done)
       /\ UNCHANGED <<memory, checkpoints, cells>>

\* The rows the SELECT of GetStage1Draft matches.
Stage1Selected(key) == {r \in stage1 : Stage1Key(r) = key}

GetStage1Draft(t, sourceText, sourceLang, targetLang, serviceUsed) ==
    LET key == <<normalizeText(sourceText), sourceLang, targetLang, serviceUsed>>
        a == [op |-> "GetStage1Draft", sourceText |-> sourceText,
              sourceLang |-> sourceLang, targetLang |-> targetLang,
              serviceUsed |-> serviceUsed]
    IN \/ /\ Ready
          /\ Stage1Selected(key) = {}
          /\ Call(a, NotFound)
          /\ UNCHANGED <<now, memory, stage1, checkpoints, cells>>
       \/ Ready /\ \E r \in Stage1Selected(key) :
            /\ t \in Readings
            /\ now' = t
            /\ stage1' = {IF Stage1Key(x) = key THEN [x EXCEPT !.last_used = t]
                          ELSE x : x \in stage1}
            /\ Call(a, Found(r.draft_text))
            /\ UNCHANGED <<memory, checkpoints, cells>>

\* ---------------------------------------------------- CSV checkpoints
\* A plain INSERT: a row with the same primary key makes it fail.
CreateCSVCheckpoint(t, inputFile, outputFile, sourceLang, targetLang) ==
    LET a == [op |-> "CreateCSVCheckpoint", inputFile |-> inputFile,
              outputFile |-> outputFile, sourceLang |-> sourceLang,
              targetLang |-> targetLang]
    IN /\ Ready
       /\ t \in Readings
       /\ now' = t
       /\ IF \E r \in checkpoints : r.id = t
          THEN /\ Call(a, [id |-> t, err |-> TRUE])
               /\ UNCHANGED checkpoints
          ELSE /\ checkpoints' = checkpoints \cup
                     {[id |-> t, input_file |-> inputFile,
                       output_file |-> outputFile, source_lang |-> sourceLang,
                       target_lang |-> targetLang, status |-> "running",
                       created_at |-> t, updated_at |-> t]}
               /\ Call(a, [id |-> t, err |-> FALSE])
       /\ UNCHANGED <<memory, stage1, cells>>

GetCSVCheckpoint(checkpointID) ==
    LET a == [op |-> "GetCSVCheckpoint", checkpointID |-> checkpointID]
        selected == {r \in checkpoints : r.id = checkpointID}
    IN /\ Ready
       /\ \/ /\ selected = {}
             /\ Call(a, [err |-> TRUE])
          \/ \E r \in selected :
               Call(a, [ID |-> r.id, InputFile |-> r.input_file,
                        OutputFile |-> r.output_file,
                        SourceLang |-> r.source_lang,
                        TargetLang |-> r.target_lang, Status |-> r.status,
                        CreatedAt |-> r.created_at, err |-> FALSE])
       /\ UNCHANGED <<now, memory, stage1, checkpoints, cells>>

\* The status CompleteCSVCheckpoint writes into a row that has status s.
CompletedStatusToggles(s) == IF s = "running" THEN "completed" ELSE "running"

CompletedStatus(s) == "completed"

CompleteCSVCheckpoint(t, checkpointID) ==
    /\ Ready
    /\ t \in Readings
    /\ now' = t
    /\ checkpoints' = {IF r.id = checkpointID
                       THEN [r EXCEPT !.status = CompletedStatus(r.status),
                                      !.updated_at = t]
                       ELSE r : r \in checkpoints}
    /\ Call([op |-> "CompleteCSVCheckpoint", checkpointID |-> checkpointID], Done)
    /\ UNCHANGED <<memory, stage1, cells>>

\* PRIMARY KEY (checkpoint_id, row_idx, col_idx) of csv_checkpoint_cells.
CellKeyAnyCheckpoint(r) == <<r.row_idx, r.col_idx>>

CellKey(r) == <<r.checkpoint_id, r.row_idx, r.col_idx>>

\* INSERT OR REPLACE INTO csv_checkpoint_cells: the row with the same
\* primary key, if any, is deleted and the new row inserted.  The table has
\* a foreign key to csv_checkpoints, which the connection New opens does not
\* enforce: a cell is stored under any checkpoint id.
SaveCSVCell(t, checkpointID, rowIdx, colIdx, translatedText) ==
    LET row == [checkpoint_id |-> checkpointID, row_idx |-> rowIdx,
                col_idx |-> colIdx, translated_text |-> translatedText,
                created_at |-> t]
    IN /\ Ready
       /\ t \in Readings
       /\ now' = t
       /\ cells' = {r \in cells : CellKey(r) # CellKey(row)} \cup {row}
       /\ Call([op |-> "SaveCSVCell", checkpointID |-> checkpointID,
                rowIdx |-> rowIdx, colIdx |-> colIdx,
                translatedText |-> translatedText], Done)
       /\ UNCHANGED <<memory, stage1, checkpoints>>

\* fmt.Sprintf("%d:%d", rowIdx, colIdx)
cellKeyRowOnly(rowIdx, colIdx) == ToString(rowIdx)

cellKey(rowIdx, colIdx) == ToString(rowIdx) \o ":" \o ToString(colIdx)

\* The map GetCSVCells builds from the rows f[i], f[i+1], ... of its query,
\* starting from the map m.
RECURSIVE ScanCells(_, _, _)
ScanCells(f, i, m) ==
    IF i > Len(f) THEN m
    ELSE LET k == cellKey(f[i].row_idx, f[i].col_idx)
         IN ScanCells(f, i + 1,
                      [x \in DOMAIN m \cup {k} |->
                         IF x = k THEN f[i].translated_text ELSE m[x]])

\* SELECT ... FROM csv_checkpoint_cells WHERE checkpoint_id = ?, the rows
\* in the order the database chooses.
GetCSVCells(checkpointID) ==
    LET selected == {r \in cells : r.checkpoint_id = checkpointID}
    IN /\ Ready
       /\ \E f \in Orders(selected) :
            Call([op |-> "GetCSVCells", checkpointID |-> checkpointID],
                 [cells |-> ScanCells(f, 1, <<>>), err |-> FALSE])
       /\ UNCHANGED <<now, memory, stage1, checkpoints, cells>>

\* ------------------------------------------------------ the csv command
\* csvCmd.RunE up to the checkpoint: the input is read, the store opened
\* unless --no-cache, and the run resumes a checkpoint, creates one, or has
\* none.  columns == {} stands for no -l flag (all columns).
CsvBegin(records, columns, db, resume) ==
    /\ csv.pc \in {"idle", "done", "failed", "crashed"}
    /\ translate.pc \in {"idle", "done", "failed"}
    /\ csv.runs + translate.runs < MaxRuns
    /\ csv' = [pc |-> IF resume # NoId
                      THEN IF db THEN "getCheckpoint" ELSE "failed"
                      ELSE IF db THEN "createCheckpoint" ELSE "loop",
               runs |-> csv.runs + 1,
               afterCrash |-> csv.pc = "crashed",
               records |-> records, columns |-> columns, db |-> db,
               resume |-> resume, checkpointID |-> NoId,
               completedCells |-> <<>>, out |-> records,
               rowIdx |-> 0, colIdx |-> 0,
               translated |-> <<>>, draft |-> <<>>,
               first |-> <<>>, composed |-> FALSE, composite |-> <<>>,
               events |-> {}, written |-> FALSE]
    /\ UNCHANGED <<database, args, ret, nops, translate>>
    /\ UNCHANGED orchestratorVars

\* translateCmd.RunE up to the cache check: the input is read and the
\* store opened unless --no-cache.  The input is translated in one chunk
\* (--chunk-size 0).
TranslateBegin(text, db, fuzzyThreshold, useRefine) ==
    /\ csv.pc \in {"idle", "done", "failed", "crashed"}
    /\ translate.pc \in {"idle", "done", "failed"}
    /\ csv.runs + translate.runs < MaxRuns
    /\ translate' = [pc |-> IF db THEN "lookup" ELSE "execute",
                     runs |-> translate.runs + 1,
                     text |-> text, db |-> db,
                     fuzzyThreshold |-> fuzzyThreshold,
                     useRefine |-> useRefine,
                     translated |-> <<>>, draft |-> <<>>,
                     first |-> <<>>, composed |-> FALSE, composite |-> <<>>,
                     output |-> <<>>, events |-> {}]
    /\ UNCHANGED <<database, args, ret, nops, csv>>
    /\ UNCHANGED orchestratorVars

TranslateLookup ==
    /\ translate.pc = "lookup"
    /\ \E t \in Readings :
         GetCachedTranslation(t, translate.text, "en", "uk")

\* The exact cache check fails: the database refuses the statement.
TranslateLookupFails ==
    /\ translate.pc = "lookup"
    /\ Call([op |-> "GetCachedTranslation", sourceText |-> translate.text,
             sourceLang |-> "en", targetLang |-> "uk"],
            [text |-> "", found |-> FALSE, err |-> TRUE])
    /\ UNCHANGED <<now, memory, stage1, checkpoints, cells>>

TranslateFuzzy ==
    /\ translate.pc = "fuzzy"
    /\ FuzzyGetCachedTranslation(translate.text, "en", "uk",
                                 translate.fuzzyThreshold)

\* orch.Execute for the one chunk, then the arbiter and the refiner if
\* enabled: the run fails if no service succeeded.
TranslateExecute(o) ==
    /\ translate.pc = "execute"
    /\ translate' =
         IF o.succeeded = 0
         THEN [Did(translate, "failed") EXCEPT !.pc = "failed"]
         ELSE [Did(translate, "execute") EXCEPT
                 !.translated = o.translated, !.draft = o.draft,
                 !.first = o.first, !.composed = o.composed,
                 !.composite = o.composite,
                 !.pc = IF translate.db THEN "saveMemory" ELSE "write"]
    /\ UNCHANGED <<database, args, ret, nops, csv>>
    /\ UNCHANGED orchestratorVars

TranslateSaveMemory ==
    /\ translate.pc = "saveMemory"
    /\ \E t \in Readings :
         SaveToMemory(t, translate.text, "en", "uk", translate.translated,
                      translate.draft, "google")

TranslateSaveStage1 ==
    /\ translate.pc = "saveStage1"
    /\ \E t \in Readings :
         SaveToStage1Cache(t, translate.text, "en", "uk", translate.draft,
                           "google")

\* writeOutput of the join of the translated chunks.
TranslateWrite ==
    /\ translate.pc = "write"
    /\ translate' = WriteOutput(translate, translate.translated)
    /\ UNCHANGED <<database, args, ret, nops, csv>>
    /\ UNCHANGED orchestratorVars

CsvGetCheckpoint ==
    /\ csv.pc = "getCheckpoint"
    /\ GetCSVCheckpoint(csv.resume)

CsvGetCells ==
    /\ csv.pc = "getCells"
    /\ GetCSVCells(csv.checkpointID)

CsvCreateCheckpoint ==
    /\ csv.pc = "createCheckpoint"
    /\ \E t \in Readings :
         CreateCSVCheckpoint(t, "in.csv", "out.csv", "en", "uk")

\* translateAll || colSet[colIdx]
Selected(f) == f.columns = {} \/ f.colIdx \in f.columns

\* The cell loop up to the cache check: the run ends after the last row; a
\* cell outside the selected columns or empty is passed over; a cell of the
\* resumed checkpoint is taken from it.
CsvLoopIgnoresCheckpoint(f) ==
    IF f.rowIdx >= Len(f.records) THEN [f EXCEPT !.pc = "write"]
    ELSE IF ~Selected(f) \/ f.records[f.rowIdx + 1][f.colIdx + 1] = <<>>
    THEN Advance(f)
    ELSE [f EXCEPT !.pc = IF f.db THEN "lookup" ELSE "execute"]

CsvLoopHead(f) ==
    IF f.rowIdx >= Len(f.records) THEN [f EXCEPT !.pc = "write"]
    ELSE LET cell == f.records[f.rowIdx + 1][f.colIdx + 1]
             key == cellKey(f.rowIdx, f.colIdx)
         IN IF ~Selected(f) \/ cell = <<>> THEN Advance(f)
            ELSE IF key \in DOMAIN f.completedCells
            THEN Advance(Put(f, f.completedCells[key]))
            ELSE [f EXCEPT !.pc = IF f.db THEN "lookup" ELSE "execute"]

CsvLoop ==
    /\ csv.pc = "loop"
    /\ csv' = CsvLoopHead(csv)
    /\ UNCHANGED <<database, args, ret, nops, translate>>
    /\ UNCHANGED orchestratorVars

CsvLookup ==
    /\ csv.pc = "lookup"
    /\ \E t \in Readings :
         GetCachedTranslation(t, csv.records[csv.rowIdx + 1][csv.colIdx + 1],
                              "en", "uk")

\* The cache check fails: the database refuses the statement (it is locked
\* by another process, or the file cannot be read) and changes nothing.
CsvLookupFails ==
    /\ csv.pc = "lookup"
    /\ Call([op |-> "GetCachedTranslation",
             sourceText |-> csv.records[csv.rowIdx + 1][csv.colIdx + 1],
             sourceLang |-> "en", targetLang |-> "uk"],
            [text |-> "", found |-> FALSE, err |-> TRUE])
    /\ UNCHANGED <<now, memory, stage1, checkpoints, cells>>

\* The cell after orch.Execute, the arbiter and the refiner: a cell for
\* which no service succeeded is passed over.
AfterExecuteStoresFailure(f, o) ==
    LET g == Noted([Put(f, o.translated) EXCEPT
                      !.translated = o.translated, !.draft = o.draft,
                      !.first = o.first, !.composed = o.composed,
                      !.composite = o.composite],
                   IF o.succeeded = 0 THEN "failed" ELSE "execute")
    IN IF f.db THEN [g EXCEPT !.pc = "saveMemory"] ELSE Advance(g)

AfterExecute(f, o) ==
    IF o.succeeded = 0 THEN Advance(Noted(f, "failed"))
    ELSE LET g == Noted([Put(f, o.translated) EXCEPT
                           !.translated = o.translated, !.draft = o.draft,
                           !.first = o.first, !.composed = o.composed,
                           !.composite = o.composite],
                        "execute")
         IN IF f.db THEN [g EXCEPT !.pc = "saveMemory"] ELSE Advance(g)

\* orch.Execute for the cell, then the arbiter and the refiner if enabled:
\* o is what the services made of the cell.
CsvExecute(o) ==
    /\ csv.pc = "execute"
    /\ csv' = AfterExecute(csv, o)
    /\ UNCHANGED <<database, args, ret, nops, translate>>
    /\ UNCHANGED orchestratorVars

CsvSaveMemory ==
    /\ csv.pc = "saveMemory"
    /\ \E t \in Readings :
         SaveToMemory(t, csv.records[csv.rowIdx + 1][csv.colIdx + 1],
                      "en", "uk", csv.translated, csv.draft, "google")

CsvSaveCell ==
    /\ csv.pc = "saveCell"
    /\ \E t \in Readings :
         SaveCSVCell(t, csv.checkpointID, csv.rowIdx, csv.colIdx,
                     csv.translated)

\* The output file is written with out.
CsvWrite ==
    /\ csv.pc = "write"
    /\ csv' = [csv EXCEPT !.written = TRUE,
                          !.pc = IF csv.db /\ csv.checkpointID # NoId
                                 THEN "complete" ELSE "done"]
    /\ UNCHANGED <<database, args, ret, nops, translate>>
    /\ UNCHANGED orchestratorVars

\* os.Create, WriteAll or Flush returns an error: the command returns it,
\* its frame is gone, and the checkpoint is not completed.
CsvWriteFails ==
    /\ csv.pc = "write"
    /\ csv' = [pc |-> "failed", runs |-> csv.runs]
    /\ UNCHANGED <<database, args, ret, nops, translate>>
    /\ UNCHANGED orchestratorVars

CsvComplete ==
    /\ csv.pc = "complete"
    /\ \E t \in Readings : CompleteCSVCheckpoint(t, csv.checkpointID)

\* The process is killed: its frame is lost, the database file stays.
Crash ==
    /\ csv.pc \notin {"idle", "done", "failed", "crashed"}
    /\ csv' = [pc |-> "crashed", runs |-> csv.runs]
    /\ UNCHANGED <<database, args, ret, nops, translate>>
    /\ UNCHANGED orchestratorVars

\* ------------------------------------------------ runs of store calls
\* A new database, opened by NewStore.
InitStore ==
    /\ NoOrchestrator
    /\ StoreOpened

\* Identities a caller may hand to InvalidateMemory, DeleteMemory and the
\* checkpoint operations: every identity generated so far, and others.
KnownIds == 0..now

\* The translation memory as the translate command and the cache
\* subcommands use it.
NextMemory ==
    \/ \E t \in Readings, x \in {TextAEraw, TextAB}, p \in LangPairs,
          f \in {"F1", "F2"} :
         SaveToMemory(t, x, p[1], p[2], f, "D1", "google")
    \/ \E t \in Readings, x \in {TextAE, TextAEraw, TextAB}, p \in LangPairs :
         GetCachedTranslation(t, x, p[1], p[2])
    \/ \E p \in LangPairs :
         FuzzyGetCachedTranslation(TextAB, p[1], p[2], Half)
    \/ \E id \in KnownIds : InvalidateMemory(id)
    \/ \E id \in KnownIds : DeleteMemory(id)
    \/ ClearMemory
    \/ ListMemory
    \/ Stats

SpecMemory == InitStore /\ [][NextMemory]_vars

\* The fuzzy lookup over entries of both language pairs, some invalidated,
\* some with an empty final text; the clock advances between the saves.
NextFuzzy ==
    \/ \E x \in {TextAE, TextAB}, p \in LangPairs, f \in {"", "F1", "F2"} :
         SaveToMemory(now + 1, x, p[1], p[2], f, "D1", "google")
    \/ \E id \in KnownIds : InvalidateMemory(id)
    \/ \E x \in {TextAB, TextAC}, th \in {Half, One} :
         FuzzyGetCachedTranslation(x, "en", "uk", th)

SpecFuzzy == InitStore /\ [][NextFuzzy]_vars

\* The fuzzy lookup at its limits: thresholds at and below 0, queries of
\* maxFuzzyRunes code points and more, entries with the very same text.
NextFuzzyLimits ==
    \/ \E t \in Readings, x \in {TextAB, Text1000, LongText} :
         SaveToMemory(t, x, "en", "uk", "F1", "D1", "google")
    \/ \E x \in {TextAB, Text1000, LongText, LongTextRaw},
          th \in {Frac(-1, 2), Zero, One} :
         FuzzyGetCachedTranslation(x, "en", "uk", th)
    \/ \E t \in Readings, x \in {TextAB, LongTextRaw} :
         GetCachedTranslation(t, x, "en", "uk")

SpecFuzzyLimits == InitStore /\ [][NextFuzzyLimits]_vars

\* The stage-1 cache next to the translation memory: drafts of two services
\* for the same texts, saved and read while the memory is written,
\* invalidated, deleted from and cleared.
NextStage1 ==
    \/ \E t \in Readings, x \in {TextAEraw, TextAB}, d \in {"D1", "D2"},
          svc \in {"google", "ollama"} :
         SaveToStage1Cache(t, x, "en", "uk", d, svc)
    \/ \E t \in Readings, x \in {TextAE, TextAB}, svc \in {"google", "ollama"} :
         GetStage1Draft(t, x, "en", "uk", svc)
    \/ \E t \in Readings :
         SaveToMemory(t, TextAB, "en", "uk", "F1", "D1", "google")
    \/ \E id \in KnownIds : InvalidateMemory(id)
    \/ \E id \in KnownIds : DeleteMemory(id)
    \/ ClearMemory

SpecStage1 == InitStore /\ [][NextStage1]_vars

\* CSV checkpoints as the csv command uses them, next to the memory it
\* writes and the cache subcommand clears.
NextCheckpoint ==
    \/ \E t \in Readings, tl \in {"uk", "de"} :
         CreateCSVCheckpoint(t, "in.csv", "out.csv", "en", tl)
    \/ \E id \in KnownIds : GetCSVCheckpoint(id)
    \/ \E t \in Readings, id \in KnownIds : CompleteCSVCheckpoint(t, id)
    \/ \E t \in Readings :
         SaveToMemory(t, TextAB, "en", "uk", "F1", "D1", "google")
    \/ ClearMemory

SpecCheckpoint == InitStore /\ [][NextCheckpoint]_vars

\* The cells of two checkpoints, written and read back while checkpoints
\* are created; cell (1, 11) and cell (11, 1) have keys of the same digits.
NextCells ==
    \/ \E t \in Readings, cp \in {0, 1}, cell \in {<<1, 11>>, <<11, 1>>},
          x \in {"T1", "T2"} :
         SaveCSVCell(t, cp, cell[1], cell[2], x)
    \/ \E cp \in {0, 1} : GetCSVCells(cp)
    \/ \E t \in Readings : CreateCSVCheckpoint(t, "in.csv", "out.csv", "en", "uk")

SpecCells == InitStore /\ [][NextCells]_vars

\* Translated texts, as bytes.
TextF1 == <<70, 49>>
TextF2 == <<70, 50>>
TextD1 == <<68, 49>>

\* Input files of one row: two cells with text, an empty cell before a cell
\* with text.
Grids == {<<<<TextAB, TextAC>>>>, <<<<<<>>, TextAB>>>>}

\* What orch.Execute, the arbiter and the refiner can make of a cell: no
\* service succeeded; the first result as it is; the first result refined.
\* No arbiter has run.
Outcomes ==
    {[succeeded |-> 0, draft |-> <<>>, translated |-> <<>>,
      first |-> <<>>, composed |-> FALSE, composite |-> <<>>],
     [succeeded |-> 1, draft |-> TextF1, translated |-> TextF1,
      first |-> TextF1, composed |-> FALSE, composite |-> <<>>],
     [succeeded |-> 1, draft |-> TextD1, translated |-> TextF2,
      first |-> TextD1, composed |-> FALSE, composite |-> <<>>]}

\* The checkpoint ids a user may hand to --resume: those printed by earlier
\* runs, and one that no run printed.
ResumeIds == {r.id : r \in checkpoints} \cup {now + 1}

\* Runs of the csv command on one database, one after the other, each to
\* its end or to a crash.
NextCsv ==
    \/ \E g \in Grids, cols \in {{}, {1}}, db \in BOOLEAN,
          resume \in {NoId} \cup ResumeIds :
         CsvBegin(g, cols, db, resume)
    \/ CsvGetCheckpoint
    \/ CsvGetCells
    \/ CsvCreateCheckpoint
    \/ CsvLoop
    \/ CsvLookup
    \/ CsvLookupFails
    \/ \E o \in Outcomes : CsvExecute(o)
    \/ CsvSaveMemory
    \/ CsvSaveCell
    \/ CsvWrite
    \/ CsvComplete
    \/ Crash

SpecCsv == InitStore /\ [][NextCsv]_vars

\* The same runs, where the output file may fail to be written.
NextCsvErrors ==
    \/ NextCsv
    \/ CsvWriteFails

SpecCsvErrors == InitStore /\ [][NextCsvErrors]_vars

\* Runs of the translate and of the csv command on one database, one after
\* the other and each to its end, over texts that differ in one letter.
NextCache ==
    \/ \E x \in {TextAB, TextAC}, db \in BOOLEAN, th \in {Zero, Half},
          refine \in BOOLEAN :
         TranslateBegin(x, db, th, refine)
    \/ TranslateLookup
    \/ TranslateLookupFails
    \/ TranslateFuzzy
    \/ \E o \in Outcomes : TranslateExecute(o)
    \/ TranslateSaveMemory
    \/ TranslateSaveStage1
    \/ TranslateWrite
    \/ \E g \in Grids, db \in BOOLEAN : CsvBegin(g, {}, db, NoId)
    \/ CsvCreateCheckpoint
    \/ CsvLoop
    \/ CsvLookup
    \/ CsvLookupFails
    \/ \E o \in Outcomes : CsvExecute(o)
    \/ CsvSaveMemory
    \/ CsvSaveCell
    \/ CsvWrite
    \/ CsvComplete

SpecCache == InitStore /\ [][NextCache]_vars

\* ====================================================================
\* Properties of the store
\* ====================================================================

\* This step is a call of the store operation op.
Called(op) == nops' = nops + 1 /\ args'.op = op

\* The key a call with arguments a is about.
KeyOf(a) == <<Canonical(a.sourceText), a.sourceLang, a.targetLang>>

\* The translation-memory entries stored under key k.
EntriesOf(rows, k) == {r \in rows : MemKey(r) = k}

\* C11: GetCachedTranslation returns not-found and changes no table when no
\* entry exists for the normalized key or the entry is invalidated;
\* otherwise it returns the entry's final text and adds exactly 1 to that
\* entry's usage count, leaving every other entry as it was.  The usage
\* count of an entry is 1 plus the number of GetCachedTranslation hits on
\* its key since the key was last saved, hence at least 1.
C11_GetCachedHitOrMiss ==
    [][/\ Called("GetCachedTranslation") =>
            LET entry == EntriesOf(memory, KeyOf(args'))
            IN IF entry = {} \/ (\E r \in entry : r.invalidated)
               THEN /\ ret' = NotFound
                    /\ memory' = memory
                    /\ stage1' = stage1
                    /\ checkpoints' = checkpoints
               ELSE \E r \in entry :
                      /\ ret' = Found(r.final_text)
                      /\ memory' = (memory \ {r}) \cup
                           {[r EXCEPT !.usage_count = r.usage_count + 1,
                                      !.last_used = now']}
                      /\ stage1' = stage1
                      /\ checkpoints' = checkpoints
       /\ \A r \in memory' :
            /\ MemKey(r) \in DOMAIN hits'
            /\ r.usage_count = 1 + hits'[MemKey(r)]
            /\ r.usage_count >= 1
      ]_vars

\* A text saved in its raw form has been looked up for the second time in
\* a row: the usage count is 3.
C11_Witness ==
    /\ args.op = "GetCachedTranslation"
    /\ args.sourceText = TextAEraw
    /\ ret.found
    /\ \E r \in memory : /\ MemKey(r) = KeyOf(args)
                         /\ r.usage_count = 3
                         /\ hits[MemKey(r)] = 2

\* C12: after SaveToMemory there is exactly one translation-memory entry
\* for the key (normalized text, source language, target language),
\* whatever was stored for the key before; it holds the new final text,
\* usage count 1 and invalidated = false.  In every state at most one
\* entry exists per key.
C12_SaveToMemoryUpserts ==
    [][/\ Called("SaveToMemory") =>
            LET entry == EntriesOf(memory', KeyOf(args'))
            IN /\ Cardinality(entry) = 1
               /\ \A r \in entry : /\ r.final_text = args'.finalText
                                   /\ r.usage_count = 1
                                   /\ r.invalidated = FALSE
       /\ \A r1, r2 \in memory' : MemKey(r1) = MemKey(r2) => r1 = r2
      ]_vars

\* A text handed over in raw form has been saved under its normalized key,
\* next to an entry of another key.
C12_Witness ==
    /\ args.op = "SaveToMemory"
    /\ args.sourceText = TextAEraw
    /\ Cardinality(memory) = 2
    /\ \E r \in memory : /\ MemKey(r) = KeyOf(args)
                         /\ r.source_text = TextAE
                         /\ r.final_text = "F2"
                         /\ r.usage_count = 1
                         /\ r.id > 0

\* InvalidateMemory(id) keeps every entry, sets the flag of the entry with
\* that identity and changes nothing else.
InvalidateKeepsEntry ==
    Called("InvalidateMemory") =>
        /\ \A r \in memory :
             IF r.id = args'.id THEN [r EXCEPT !.invalidated = TRUE] \in memory'
             ELSE r \in memory'
        /\ Cardinality(memory') = Cardinality(memory)

\* DeleteMemory(id) removes the entry with that identity and no other.
DeleteRemovesEntry ==
    Called("DeleteMemory") => memory' = {r \in memory : r.id # args'.id}

\* ListMemory lists and Stats counts every entry, invalidated or not.
ListedAndCounted ==
    /\ Called("ListMemory") =>
         /\ {ret'.results[i].ID : i \in DOMAIN ret'.results} = {r.id : r \in memory}
         /\ Len(ret'.results) = Cardinality(memory)
         /\ \A i \in DOMAIN ret'.results :
              \E r \in memory : /\ r.id = ret'.results[i].ID
                                /\ r.invalidated = ret'.results[i].Invalidated
    /\ Called("Stats") =>
         /\ ret'.TotalEntries = Cardinality(memory)
         /\ ret'.InvalidEntries = Cardinality({r \in memory : r.invalidated})

\* An invalidated entry stays invalidated, if it stays, until its key is
\* saved again.
StaysInvalidated ==
    \A r \in memory :
        (r.invalidated /\ ~(Called("SaveToMemory") /\ KeyOf(args') = MemKey(r)))
            => \A r2 \in EntriesOf(memory', MemKey(r)) : r2.invalidated

\* GetCachedTranslation for the key of an invalidated entry: not-found.
ExactLookupMissesInvalidated ==
    (Called("GetCachedTranslation")
       /\ \E r \in EntriesOf(memory, KeyOf(args')) : r.invalidated)
        => ret' = NotFound

\* C13 as stated: InvalidateMemory(id) keeps the entry (it is still listed
\* and counted) but every later GetCachedTranslation and
\* FuzzyGetCachedTranslation for its key returns not-found until the key is
\* saved again; DeleteMemory(id) removes exactly that entry; neither
\* changes any other entry.
C13_AsStated ==
    [][/\ InvalidateKeepsEntry
       /\ DeleteRemovesEntry
       /\ ListedAndCounted
       /\ StaysInvalidated
       /\ ExactLookupMissesInvalidated
       /\ (Called("FuzzyGetCachedTranslation")
             /\ \E r \in EntriesOf(memory, KeyOf(args')) : r.invalidated)
            => ret' = NotFound
      ]_vars

\* C13, amended: as stated for GetCachedTranslation; a later
\* FuzzyGetCachedTranslation never scans an invalidated entry, so that a
\* fuzzy lookup for the key of an invalidated entry returns, if anything,
\* the final text of another, not invalidated entry of the language pair.
C13_SoftAndHardRemoval ==
    [][/\ InvalidateKeepsEntry
       /\ DeleteRemovesEntry
       /\ ListedAndCounted
       /\ StaysInvalidated
       /\ ExactLookupMissesInvalidated
       /\ Called("FuzzyGetCachedTranslation") =>
            LET scanned == {r \in memory :
                              \E i \in DOMAIN args'.scanned : args'.scanned[i] = r.id}
            IN /\ \A r \in scanned : /\ ~r.invalidated
                                     /\ r.source_lang = args'.sourceLang
                                     /\ r.target_lang = args'.targetLang
               /\ ret'.found => \E r \in scanned : r.final_text = ret'.text
      ]_vars

\* An entry has been invalidated and the exact lookup of its key, handed
\* over in raw form, has returned not-found; the entry is still there.
C13_Witness ==
    /\ args.op = "GetCachedTranslation"
    /\ args.sourceText = TextAEraw
    /\ ret = NotFound
    /\ \E r \in EntriesOf(memory, KeyOf(args)) : r.invalidated

\* This step is one of the operations that may end entry r: an
\* InvalidateMemory or DeleteMemory of it, a ClearMemory, or a SaveToMemory
\* for its key.
Ends(r) ==
    \/ Called("InvalidateMemory") /\ args'.id = r.id
    \/ Called("DeleteMemory") /\ args'.id = r.id
    \/ Called("ClearMemory")
    \/ Called("SaveToMemory") /\ KeyOf(args') = MemKey(r)

\* C14: entries never expire on their own.  An entry that GetCachedTranslation
\* can retrieve stays retrievable, with the same final text, over every
\* operation other than an InvalidateMemory or DeleteMemory of that entry,
\* a ClearMemory and a SaveToMemory for its key.
C14_NeverExpires ==
    [][\A r \in memory :
         (~r.invalidated /\ ~Ends(r))
            => \E r2 \in EntriesOf(memory', MemKey(r)) :
                 /\ r2.final_text = r.final_text
                 /\ ~r2.invalidated
      ]_vars

\* C15: every cache hit, whether GetCachedTranslation or
\* FuzzyGetCachedTranslation serves it, adds 1 to the usage count of the
\* entry it returns and sets that entry's last-used time to the time of
\* the hit.
C15_EveryHitCounts ==
    [][((Called("GetCachedTranslation") \/ Called("FuzzyGetCachedTranslation"))
          /\ ret'.found)
         => \E r \in memory :
              /\ r.final_text = ret'.text
              /\ r.source_lang = args'.sourceLang
              /\ r.target_lang = args'.targetLang
              /\ [r EXCEPT !.usage_count = r.usage_count + 1,
                           !.last_used = now'] \in memory'
      ]_vars

\* The tables are as they were.
TablesUnchanged ==
    /\ memory' = memory
    /\ stage1' = stage1
    /\ checkpoints' = checkpoints

\* C16: FuzzyGetCachedTranslation returns not-found, without error,
\* whenever the threshold is at most 0 or the normalized query is longer
\* than 1000 code points, whatever the store holds.
C16_FuzzyRefuses ==
    [][(Called("FuzzyGetCachedTranslation")
          /\ \/ args'.threshold.n <= 0
             \/ RuneCount(Canonical(args'.sourceText)) > 1000)
         => /\ ret'.found = FALSE
            /\ ret'.err = FALSE
            /\ ret'.text = ""
            /\ TablesUnchanged
      ]_vars

\* A query of 1001 code points, handed over with white space around it,
\* has been refused at threshold 1 although an entry with that very text
\* exists and the exact lookup finds it.
C16_Witness ==
    /\ args.op = "FuzzyGetCachedTranslation"
    /\ args.sourceText = LongTextRaw
    /\ args.threshold = One
    /\ ret = NotFound
    /\ \E r \in memory : /\ r.source_text = LongText
                         /\ ~r.invalidated
                         /\ r.final_text = "F1"
                         /\ r.usage_count = 2

\* The entries a fuzzy lookup with arguments a may return: not invalidated,
\* of the language pair, with similarity to the normalized query of at
\* least the threshold.
Matching(a) ==
    {r \in memory :
        /\ r.source_lang = a.sourceLang
        /\ r.target_lang = a.targetLang
        /\ ~r.invalidated
        /\ ~FracLess(stringSimilarity(Canonical(a.sourceText), r.source_text),
                     a.threshold)}

\* Among them, those of greatest similarity.
BestMatching(a) ==
    {r \in Matching(a) :
        \A r2 \in Matching(a) :
            ~FracLess(stringSimilarity(Canonical(a.sourceText), r.source_text),
                      stringSimilarity(Canonical(a.sourceText), r2.source_text))}

\* The place of the row with identity id in the scan.
ScanIndex(a, id) == CHOOSE i \in DOMAIN a.scanned : a.scanned[i] = id

\* C17: for a threshold in (0,1] and a query of at most 1000 code points,
\* FuzzyGetCachedTranslation returns found if and only if some entry that
\* is not invalidated, of the same language pair, has similarity at least
\* the threshold to the normalized query; the text returned is the final
\* text of such an entry of greatest similarity, the first scanned among
\* those.
C17_FuzzyReturnsBest ==
    [][(Called("FuzzyGetCachedTranslation")
          /\ FracLess(Zero, args'.threshold)
          /\ ~FracLess(One, args'.threshold)
          /\ RuneCount(Canonical(args'.sourceText)) <= 1000)
         => /\ ret'.found = (Matching(args') # {})
            /\ ret'.found =>
                 \E r \in BestMatching(args') :
                    /\ ret'.text = r.final_text
                    /\ \A r2 \in BestMatching(args') :
                         ScanIndex(args', r.id) <= ScanIndex(args', r2.id)
      ]_vars

\* The strings one insertion, deletion or substitution of a code point away
\* from x, none longer than MaxStrLen.
OneEditFrom(x) ==
    {SubSeq(x, 1, i - 1) \o SubSeq(x, i + 1, Len(x)) : i \in 1..Len(x)}
    \cup {[x EXCEPT ![i] = c] : i \in 1..Len(x), c \in Alphabet}
    \cup (IF Len(x) < MaxStrLen
          THEN {SubSeq(x, 1, i) \o <<c>> \o SubSeq(x, i + 1, Len(x)) :
                  i \in 0..Len(x), c \in Alphabet}
          ELSE {})

\* The strings at most k edits away from x.
RECURSIVE WithinEdits(_, _)
WithinEdits(x, k) ==
    IF k = 0 THEN {x}
    ELSE LET nearer == WithinEdits(x, k - 1)
         IN nearer \cup UNION {OneEditFrom(w) : w \in nearer}

\* The reference edit distance: the least number of edits from x to y.
EditDistance(x, y) ==
    CHOOSE k \in 0..(Len(x) + Len(y)) :
        /\ y \in WithinEdits(x, k)
        /\ \A j \in 0..(k - 1) : y \notin WithinEdits(x, j)

\* C18: levenshtein(a, b) is the reference edit distance over code points,
\* so levenshtein("", s) is the length of s and levenshtein(a, b) =
\* levenshtein(b, a); stringSimilarity(a, b) is
\* 1 - levenshtein(a, b) / max(len(a), len(b)), and 1 when both are empty.
C18_LevenshteinIsEditDistance ==
    /\ args.op = "levenshtein" =>
         /\ ret.d = EditDistance(args.ra, args.rb)
         /\ args.ra = <<>> => ret.d = Len(args.rb)
         /\ ret.d = levenshtein(args.b, args.a)
    /\ args.op = "stringSimilarity" =>
         LET maxLen == Max2(Len(args.ra), Len(args.rb))
         IN IF maxLen = 0 THEN ret.sim.n = ret.sim.d
            ELSE FracEq(ret.sim,
                        Frac(maxLen - EditDistance(args.ra, args.rb), maxLen))

\* The similarity of "a" + U+00E9 (three bytes) and "ab" has been computed:
\* one substitution in two code points.
C18_Witness ==
    /\ args.op = "stringSimilarity"
    /\ args.ra = <<97, 233>>
    /\ args.rb = <<97, 98>>
    /\ Len(args.a) = 3
    /\ ret.sim = Frac(1, 2)

\* What GetStage1Draft returns for each text, language pair and service.
DraftView(rows) == {<<Stage1Key(r), r.draft_text>> : r \in rows}

\* The key a stage-1 call with arguments a is about.
Stage1KeyOf(a) ==
    <<Canonical(a.sourceText), a.sourceLang, a.targetLang, a.serviceUsed>>

\* C19: GetStage1Draft returns the draft most recently saved by
\* SaveToStage1Cache for the same normalized text, language pair and
\* service, and not-found if none was saved for that service: a save makes
\* its draft the one of its key, the draft of a key changes or goes only by
\* a save for that key and comes only by one, and GetStage1Draft returns
\* the draft of its key.  No translation-memory operation changes what
\* GetStage1Draft returns.
C19_Stage1DraftIsLastSaved ==
    [][/\ Called("SaveToStage1Cache") =>
            {v \in DraftView(stage1') : v[1] = Stage1KeyOf(args')}
                = {<<Stage1KeyOf(args'), args'.draftText>>}
       /\ \A v \in DraftView(stage1) :
            ~(Called("SaveToStage1Cache") /\ Stage1KeyOf(args') = v[1])
                => v \in DraftView(stage1')
       /\ \A v \in DraftView(stage1') :
            ~(Called("SaveToStage1Cache") /\ Stage1KeyOf(args') = v[1])
                => v \in DraftView(stage1)
       /\ Called("GetStage1Draft") =>
            LET saved == {v \in DraftView(stage1) : v[1] = Stage1KeyOf(args')}
            IN IF saved = {} THEN ret' = NotFound
               ELSE \E v \in saved : ret' = Found(v[2])
       /\ (Called("SaveToMemory") \/ Called("InvalidateMemory")
             \/ Called("DeleteMemory") \/ Called("ClearMemory"))
            => DraftView(stage1') = DraftView(stage1)
      ]_vars

\* C20: a CSV checkpoint has status running from CreateCSVCheckpoint until
\* CompleteCSVCheckpoint and status completed ever after: a created
\* checkpoint is running, the status changes only from running to
\* completed and only by CompleteCSVCheckpoint of that checkpoint, a
\* completed checkpoint is never running again, and no operation removes a
\* checkpoint.
C20_CheckpointStatus ==
    [][/\ (Called("CreateCSVCheckpoint") /\ ~ret'.err) =>
            /\ \A r \in checkpoints : r.id # ret'.id
            /\ \E r \in checkpoints' : r.id = ret'.id /\ r.status = "running"
       /\ \A r \in checkpoints :
            \E r2 \in checkpoints' :
               /\ r2.id = r.id
               /\ r.status = "completed" => r2.status = "completed"
               /\ r2.status # r.status =>
                    /\ Called("CompleteCSVCheckpoint")
                    /\ args'.checkpointID = r.id
                    /\ r2.status = "completed"
               /\ (Called("CompleteCSVCheckpoint") /\ args'.checkpointID = r.id)
                    => r2.status = "completed"
       /\ \A r1, r2 \in checkpoints' : r1.id = r2.id => r1 = r2
       /\ (Called("GetCSVCheckpoint") /\ ~ret'.err) =>
            \E r \in checkpoints : /\ r.id = args'.checkpointID
                                   /\ r.status = ret'.Status
      ]_vars

\* Of two checkpoints one has been completed and then read: its status is
\* completed, the other is still running.
C20_Witness ==
    /\ args.op = "GetCSVCheckpoint"
    /\ ret.err = FALSE
    /\ ret.Status = "completed"
    /\ \E r \in checkpoints : r.id # args.checkpointID /\ r.status = "running"

\* The texts saved for the cells of checkpoint cp, as the map from "row:col"
\* to text.
LastSaved(cp) ==
    LET keys == {k \in DOMAIN savedCells : k[1] = cp}
        Name(k) == ToString(k[2]) \o ":" \o ToString(k[3])
    IN [s \in {Name(k) : k \in keys} |->
          LET k == CHOOSE k \in keys : Name(k) = s
          IN savedCells[k]]

\* C21: SaveCSVCell is an idempotent overwrite keyed by (checkpoint id, row,
\* col): GetCSVCells(cp) returns exactly the map from "row:col" to the text
\* most recently saved for each cell of cp, with one entry per cell saved
\* and nothing of another checkpoint, and saving a value a second time
\* leaves the map of every checkpoint as it was.
C21_CellsAreLastSaved ==
    [][/\ Called("GetCSVCells") =>
            /\ ~ret'.err
            /\ ret'.cells = LastSaved(args'.checkpointID)
            /\ Cardinality(DOMAIN ret'.cells) =
                 Cardinality({k \in DOMAIN savedCells :
                                k[1] = args'.checkpointID})
       /\ (/\ Called("SaveCSVCell")
           /\ <<args'.checkpointID, args'.rowIdx, args'.colIdx>>
                 \in DOMAIN savedCells
           /\ savedCells[<<args'.checkpointID, args'.rowIdx, args'.colIdx>>]
                 = args'.translatedText)
          => /\ savedCells' = savedCells
             /\ {<<CellKey(r), r.translated_text>> : r \in cells'} =
                {<<CellKey(r), r.translated_text>> : r \in cells}]_vars

\* GetCSVCells has returned the one-cell map of a checkpoint, after three
\* saves that wrote that cell and a cell of the other checkpoint.
C21_Witness ==
    /\ args.op = "GetCSVCells"
    /\ nops = 4
    /\ checkpoints = {}
    /\ Cardinality(cells) = 2
    /\ DOMAIN ret.cells = {"11:1"}
    /\ ret.cells["11:1"] = "T2"
    /\ \E k \in DOMAIN savedCells : k[1] # args.checkpointID

\* C22: after a crash of a csv run at any point, the GetCSVCells of the run
\* that resumes the checkpoint returns exactly the cells whose SaveCSVCell
\* had returned, each with the whole text last saved for it; a cell whose
\* save had not returned is not among them.
C22_ResumeSeesCompletedSaves ==
    (csv.pc \notin {"idle", "crashed", "failed"} /\ csv.resume # NoId
       /\ csv.checkpointID = csv.resume /\ csv.pc # "getCells")
    => /\ \A k \in DOMAIN csv.completedCells :
            /\ csv.completedCells[k] \in {TextF1, TextF2}
            /\ \E c \in DOMAIN savedCells :
                 /\ c[1] = csv.resume
                 /\ k = ToString(c[2]) \o ":" \o ToString(c[3])
       /\ (csv.events = {} /\ args.op = "GetCSVCells")
            => csv.completedCells = LastSaved(csv.resume)

\* A run crashed after the save of its first cell and before the save of
\* its second; the run that resumes its checkpoint has loaded the first.
C22_Witness ==
    /\ csv.pc = "loop"
    /\ csv.afterCrash
    /\ csv.resume # NoId
    /\ args.op = "GetCSVCells"
    /\ DOMAIN csv.completedCells = {"0:0"}
    /\ csv.completedCells["0:0"] \in {TextF1, TextF2}
    /\ csv.records = <<<<TextAB, TextAC>>>>
    /\ csv.columns = {}

\* The run of the csv command is at its cell loop or after it.
InCellLoop ==
    csv.pc \in {"loop", "lookup", "execute", "saveMemory", "saveCell",
                "write", "complete", "done"}

\* The cells of the input: <<rowIdx, colIdx>>.
Positions ==
    {p \in (0..(Len(csv.records) - 1)) \X (0..1) :
       p[2] < Len(csv.records[p[1] + 1])}

\* The cell loop is done with the cell at p.
Passed(p) ==
    \/ csv.pc \in {"write", "complete", "done"}
    \/ csv.rowIdx > p[1]
    \/ csv.rowIdx = p[1] /\ csv.colIdx > p[2]

\* What the run has done for the cell at p: cache lookups, Execute calls,
\* saves to the memory and to the checkpoint.
EventsAt(p) == {e \in csv.events : e[2] = p[1] /\ e[3] = p[2]}

RecordedAt(p) == (ToString(p[1]) \o ":" \o ToString(p[2])) \in DOMAIN csv.completedCells
RecordedText(p) == csv.completedCells[ToString(p[1]) \o ":" \o ToString(p[2])]
InputAt(p) == csv.records[p[1] + 1][p[2] + 1]
OutputAt(p) == csv.out[p[1] + 1][p[2] + 1]

\* C23 as the specification states it: a resumed run takes every cell
\* whose row:col key is recorded in the checkpoint from the checkpoint.
C23_AsStated ==
    (InCellLoop /\ csv.resume # NoId) =>
      \A p \in Positions :
        RecordedAt(p) =>
          /\ EventsAt(p) = {}
          /\ Passed(p) => OutputAt(p) = RecordedText(p)

\* C23 (amended): a resumed run takes every non-empty cell of a selected
\* column whose row:col key is recorded in the checkpoint from the
\* checkpoint: its output is the recorded text, and the run makes no cache
\* lookup, no Execute call and no save for it; a recorded cell that is
\* empty or outside the selected columns keeps its input value; only cells
\* that are not recorded go to the cache and the services.
C23_ResumedCellsFromCheckpoint ==
    (InCellLoop /\ csv.resume # NoId) =>
      \A p \in Positions :
        RecordedAt(p) =>
          /\ EventsAt(p) = {}
          /\ Passed(p) =>
               OutputAt(p) =
                 IF (csv.columns = {} \/ p[2] \in csv.columns)
                      /\ InputAt(p) # <<>>
                 THEN RecordedText(p) ELSE InputAt(p)

\* A resumed run has taken its first cell from the checkpoint and has
\* looked up its second, which is not recorded, in the cache.
C23_Witness ==
    /\ InCellLoop
    /\ csv.resume # NoId
    /\ DOMAIN csv.completedCells = {"0:0"}
    /\ InputAt(<<0, 0>>) # <<>>
    /\ OutputAt(<<0, 0>>) = RecordedText(<<0, 0>>)
    /\ <<"lookup", 0, 1>> \in csv.events

\* C24: a cell for which every service fails keeps its source text in the
\* output and is written neither to the translation memory nor to the
\* checkpoint, and the batch goes on: the run does not fail, and by the
\* time the output is written every other selected, non-empty cell that
\* the checkpoint does not hold has been looked up or handed to the
\* services.
C24_FailedCellKeepsSource ==
    InCellLoop =>
      \A p \in Positions :
        (<<"failed", p[1], p[2]>> \in csv.events) =>
          /\ Passed(p) \/ csv.pc = "loop"
          /\ OutputAt(p) = InputAt(p)
          /\ EventsAt(p) \subseteq {<<"lookup", p[1], p[2]>>,
                                    <<"failed", p[1], p[2]>>}
          /\ csv.pc \in {"write", "complete", "done"} =>
               \A q \in Positions :
                 ((csv.columns = {} \/ q[2] \in csv.columns)
                    /\ InputAt(q) # <<>> /\ ~RecordedAt(q))
                 => EventsAt(q) # {}

\* Every service failed for the first cell of a run with a checkpoint; the
\* second cell has been translated and saved, and the output written.
C24_Witness ==
    /\ csv.pc \in {"complete", "done"}
    /\ csv.checkpointID # NoId
    /\ <<"failed", 0, 0>> \in csv.events
    /\ <<"saveCell", 0, 1>> \in csv.events
    /\ OutputAt(<<0, 0>>) = TextAB
    /\ OutputAt(<<0, 1>>) \in {TextF1, TextF2}
    /\ csv.written

\* The entries of the translation memory that an exact lookup of text x can
\* be answered from.
Cached(x) ==
    {r \in memory : MemKey(r) = <<x, "en", "uk">> /\ ~r.invalidated}

\* This step hands the input to orch.Execute.
CsvProvidersInvoked ==
    csv'.pc # "idle" /\ csv'.pc # "crashed" /\ csv.pc = "execute"
      /\ csv'.events # csv.events
TranslateProvidersInvoked ==
    translate.pc = "execute" /\ translate'.events # translate.events

\* C28: when the exact lookup of the input in the translation memory hits
\* (the whole input text of translate, the cell of csv), the output is the
\* cached final text and the input is not handed to orch.Execute; it is
\* handed to orch.Execute only after the lookup missed or failed (or by a
\* run without a store, which looks nothing up).
C28_CacheHitSkipsProviders ==
    [][/\ (csv.pc = "lookup" /\ Called("GetCachedTranslation")) =>
            IF ret'.found /\ ~ret'.err
            THEN /\ \E r \in Cached(InputAt(<<csv.rowIdx, csv.colIdx>>)) :
                      csv'.out[csv.rowIdx + 1][csv.colIdx + 1] = r.final_text
                 /\ csv'.pc \in {"saveCell", "loop"}
            ELSE csv'.pc = "execute"
       /\ (translate.pc = "lookup" /\ Called("GetCachedTranslation")) =>
            IF ret'.found /\ ~ret'.err
            THEN /\ \E r \in Cached(translate.text) :
                      translate'.output = r.final_text
                 /\ translate'.pc = "done"
            ELSE translate'.pc \in {"fuzzy", "execute"}
       /\ CsvProvidersInvoked =>
            /\ csv.db => <<"lookup", csv.rowIdx, csv.colIdx>> \in csv.events
            /\ csv.db => \/ args.op = "GetCachedTranslation"
                             /\ (ret.err \/ ~ret.found)
       /\ TranslateProvidersInvoked =>
            /\ translate.db => "lookup" \in translate.events
            /\ "hit" \notin translate.events]_vars

\* A csv run has taken its first cell from the translation memory, where a
\* translate run had saved it, and has written it to its checkpoint without
\* handing it to the services.
C28_Witness ==
    /\ translate.pc = "done"
    /\ "saveMemory" \in translate.events
    /\ InCellLoop
    /\ Passed(<<0, 0>>)
    /\ EventsAt(<<0, 0>>) = {<<"lookup", 0, 0>>, <<"saveCell", 0, 0>>}
    /\ InputAt(<<0, 0>>) = translate.text
    /\ OutputAt(<<0, 0>>) = translate.output
    /\ translate.output \in {TextF1, TextF2}

\* ======================================================================
\* The chunker: Chunk, findSplit, lastIndex, ExtractContext, over the bytes
\* of a Go string, which need not be valid UTF-8.
\* ======================================================================

\* -------------------------------------------------------------- bounds
\* Largest number of pieces (letters, white space, punctuation, stray
\* bytes) a text handed to the chunker is made of.
MaxPieces == 4

\* ----------------------------------------------------------- constants
DefaultContextWords == 25

\* ---------------------------------------------------------------- text
\* A continuation byte of a UTF-8 encoding.
IsCont(b) == b >= 128 /\ b < 192

\* The number of bytes of the valid encoding s starts with, 0 if s starts
\* with a byte that starts none (4-byte encodings do not occur in the
\* texts and count as invalid).
EncodingWidth(s) ==
    IF s[1] < 128 THEN 1
    ELSE IF s[1] >= 194 /\ s[1] < 224 /\ Len(s) >= 2 /\ IsCont(s[2]) THEN 2
    ELSE IF /\ s[1] >= 224 /\ s[1] < 240 /\ Len(s) >= 3
            /\ IsCont(s[2]) /\ IsCont(s[3])
            /\ (s[1] = 224 => s[2] >= 160)
            /\ (s[1] = 237 => s[2] < 160)
    THEN 3
    ELSE 0

\* []rune(s) for any string: a byte that starts no valid encoding becomes
\* one utf8.RuneError, U+FFFD (65533).
RECURSIVE ToRunes(_)
ToRunes(s) ==
    IF s = <<>> THEN <<>>
    ELSE LET w == EncodingWidth(s)
         IN IF w = 1 THEN <<s[1]>> \o ToRunes(Tail(s))
            ELSE IF w = 2
            THEN <<(s[1] - 192) * 64 + (s[2] - 128)>>
                   \o ToRunes(SubSeq(s, 3, Len(s)))
            ELSE IF w = 3
            THEN <<(s[1] - 224) * 4096 + (s[2] - 128) * 64 + (s[3] - 128)>>
                   \o ToRunes(SubSeq(s, 4, Len(s)))
            ELSE <<65533>> \o ToRunes(Tail(s))

\* strings.Index(s[start:], substr) + start, with start and the result
\* counted from 0; -1 if substr does not occur.
IndexFrom(s, substr, start) ==
    LET at == {k \in start..(Len(s) - Len(substr)) :
                 SubSeq(s, k + 1, k + Len(substr)) = substr}
    IN IF at = {} THEN -1 ELSE CHOOSE k \in at : \A j \in at : k <= j

\* The loop of lastIndex, with idx the last occurrence found so far.
RECURSIVE LastIndexLoop(_, _, _, _)
LastIndexLoop(s, substr, start, idx) ==
    LET k == IndexFrom(s, substr, start)
    IN IF k = -1 THEN idx ELSE LastIndexLoop(s, substr, k + 1, k)

lastIndex(s, substr) == LastIndexLoop(s, substr, 0, -1)

\* The sentence loop of findSplit over the runes cr of the candidate, from
\* index i (counted from 0) down to 1: the bytes up to and including the
\* last '.', '!' or '?' that white space follows; -1 if there is none.
RECURSIVE SentenceSplit(_, _)
SentenceSplit(cr, i) ==
    IF i <= 0 THEN -1
    ELSE IF cr[i + 1] \in {46, 33, 63} /\ i + 1 < Len(cr) /\ IsSpace(cr[i + 2])
    THEN Len(EncodeRunes(SubSeq(cr, 1, i + 1)))
    ELSE SentenceSplit(cr, i - 1)

\* The word loop of findSplit: the bytes before the last white space that
\* is not the first rune; -1 if there is none.
RECURSIVE WordSplit(_, _)
WordSplit(cr, i) ==
    IF i <= 0 THEN -1
    ELSE IF IsSpace(cr[i + 1]) THEN Len(EncodeRunes(SubSeq(cr, 1, i)))
    ELSE WordSplit(cr, i - 1)

findSplit(text, maxChars) ==
    LET runes == ToRunes(text)
        candidate == EncodeRunes(SubSeq(runes, 1, maxChars))
        cr == ToRunes(candidate)
        para == lastIndex(candidate, <<10, 10>>)
        paraCR == lastIndex(candidate, <<13, 10, 13, 10>>)
        sentence == SentenceSplit(cr, Len(cr) - 1)
        word == WordSplit(cr, Len(cr) - 1)
    IN IF Len(runes) <= maxChars THEN Len(text)
       ELSE IF para > 0 THEN para + 2
       ELSE IF paraCR > 0 THEN paraCR + 4
       ELSE IF sentence # -1 THEN sentence
       ELSE IF word # -1 THEN word
       ELSE Len(candidate)

\* append(chunks, chunk) unless chunk is empty
Appended(chunks, chunk) ==
    IF chunk # <<>> THEN Append(chunks, chunk) ELSE chunks

\* The loop of Chunk and what follows it.  remaining[:split] panics when
\* split is beyond the end of remaining.
RECURSIVE ChunkLoop(_, _, _)
ChunkLoop(remaining, maxChars, chunks) ==
    IF Len(ToRunes(remaining)) > maxChars
    THEN LET split == findSplit(remaining, maxChars)
         IN IF split > Len(remaining)
            THEN [panic |-> TRUE, chunks |-> chunks]
            ELSE ChunkLoop(TrimSpace(SubSeq(remaining, split + 1, Len(remaining))),
                           maxChars,
                           Appended(chunks, TrimSpace(SubSeq(remaining, 1, split))))
    ELSE [panic |-> FALSE, chunks |-> Appended(chunks, TrimSpace(remaining))]

Chunk(text, maxChars) ==
    IF maxChars <= 0 \/ Len(ToRunes(text)) <= maxChars
    THEN [panic |-> FALSE, chunks |-> <<text>>]
    ELSE ChunkLoop(text, maxChars, <<>>)

\* strings.Fields from byte i on, word the field being read.
RECURSIVE FieldsFrom(_, _, _)
FieldsFrom(s, i, word) ==
    IF i > Len(s) THEN (IF word = <<>> THEN <<>> ELSE <<word>>)
    ELSE IF IsSpace(s[i])
    THEN (IF word = <<>> THEN <<>> ELSE <<word>>) \o FieldsFrom(s, i + 1, <<>>)
    ELSE FieldsFrom(s, i + 1, Append(word, s[i]))

Fields(s) == FieldsFrom(s, 1, <<>>)

\* strings.Join(words, " ")
RECURSIVE Join(_)
Join(words) ==
    IF words = <<>> THEN <<>>
    ELSE IF Len(words) = 1 THEN words[1]
    ELSE words[1] \o <<32>> \o Join(Tail(words))

\* if wordCount <= 0 { wordCount = DefaultContextWords }
WordCountAsGiven(wordCount) == wordCount

WordCount(wordCount) ==
    IF wordCount <= 0 THEN DefaultContextWords ELSE wordCount

ExtractContext(text, wordCount) ==
    LET n == WordCount(wordCount)
        words == Fields(text)
    IN IF Len(words) <= n THEN TrimSpace(text)
       ELSE Join(SubSeq(words, Len(words) - n + 1, Len(words)))

\* ------------------------------------------------------ chunker inputs
\* What the texts are made of: a, e with acute (two bytes), space, full
\* stop, line feed, CR LF, and the first byte of a two-byte encoding alone
\* (as in a file that is not UTF-8, or was cut).
Pieces == {<<97>>, <<195, 169>>, <<32>>, <<46>>, <<10>>, <<13, 10>>, <<195>>}

RECURSIVE PieceTexts(_)
PieceTexts(n) ==
    IF n = 0 THEN {<<>>}
    ELSE LET shorter == PieceTexts(n - 1)
         IN shorter \cup {t \o q : t \in shorter, q \in Pieces}

\* n words "a", a space between them.
RECURSIVE Words(_)
Words(n) == IF n = 1 THEN <<97>> ELSE <<97, 32>> \o Words(n - 1)

\* maxChars of Chunk, wordCount of ExtractContext.
Sizes == {-1, 0, 1, 2, 3, 5}

InitChunker ==
    /\ NoOrchestrator
    /\ NewDatabase
    /\ csv = CsvIdle
    /\ translate = TranslateIdle
    /\ \E x \in PieceTexts(MaxPieces) \cup {Words(DefaultContextWords),
                                            Words(DefaultContextWords + 1)},
          n \in Sizes :
         args = [op |-> "input", text |-> x, n |-> n]
    /\ ret = NoRet
    /\ nops = 0

CallChunk ==
    /\ args.op = "input"
    /\ args' = [args EXCEPT !.op = "Chunk"]
    /\ ret' = [err |-> FALSE] @@ Chunk(args.text, args.n)
    /\ nops' = nops + 1
    /\ UNCHANGED <<database, csv, translate>>
    /\ UNCHANGED orchestratorVars

CallExtractContext ==
    /\ args.op = "input"
    /\ args' = [args EXCEPT !.op = "ExtractContext"]
    /\ ret' = [err |-> FALSE, context |-> ExtractContext(args.text, args.n)]
    /\ nops' = nops + 1
    /\ UNCHANGED <<database, csv, translate>>
    /\ UNCHANGED orchestratorVars

\* findSplit as Chunk calls it: maxChars is positive and the text has more
\* code points than that.
CallFindSplit ==
    /\ args.op = "input"
    /\ args.n > 0
    /\ Len(ToRunes(args.text)) > args.n
    /\ args' = [args EXCEPT !.op = "findSplit"]
    /\ ret' = [err |-> FALSE, split |-> findSplit(args.text, args.n)]
    /\ nops' = nops + 1
    /\ UNCHANGED <<database, csv, translate>>
    /\ UNCHANGED orchestratorVars

NextChunker ==
    \/ CallChunk
    \/ CallFindSplit
    \/ CallExtractContext

SpecChunker == InitChunker /\ [][NextChunker]_vars

\* ------------------------------------------------- chunker properties
\* s contains sub as a substring (strings.Contains).
Contains(s, sub) ==
    \E k \in 0..(Len(s) - Len(sub)) : SubSeq(s, k + 1, k + Len(sub)) = sub

\* The white-space-delimited tokens of s, as the set of their places:
\* <<i, j>> with s[i..j] free of white space and not extendable.
TokenPlaces(s) ==
    {pl \in (1..Len(s)) \X (1..Len(s)) :
       /\ pl[1] <= pl[2]
       /\ \A k \in pl[1]..pl[2] : ~IsSpace(s[k])
       /\ pl[1] = 1 \/ IsSpace(s[pl[1] - 1])
       /\ pl[2] = Len(s) \/ IsSpace(s[pl[2] + 1])}

\* C25: for all text and any maxChars > 0, the chunks of Chunk(text,
\* maxChars) joined with single spaces contain every white-space-delimited
\* token of text.
C25_JoinedChunksHoldEveryToken ==
    (args.op = "Chunk" /\ args.n > 0) =>
      /\ ~ret.panic
      /\ \A pl \in TokenPlaces(args.text) :
           Contains(Join(ret.chunks), SubSeq(args.text, pl[1], pl[2]))

\* C26: for every text and every maxChars > 0, each chunk of Chunk(text,
\* maxChars) has at most maxChars code points.
C26_ChunksWithinMaxChars ==
    (args.op = "Chunk" /\ args.n > 0) =>
      /\ ~ret.panic
      /\ \A i \in 1..Len(ret.chunks) : Len(ToRunes(ret.chunks[i])) <= args.n

\* The tokens at places, in their order in s, a single space between them.
RECURSIVE Spaced(_, _)
Spaced(s, places) ==
    IF places = {} THEN <<>>
    ELSE LET first == CHOOSE pl \in places : \A q \in places : pl[1] <= q[1]
             rest == places \ {first}
         IN SubSeq(s, first[1], first[2])
              \o (IF rest = {} THEN <<>> ELSE <<32>> \o Spaced(s, rest))

\* s from its first to its last byte that is not white space.
Trimmed(s) ==
    LET ink == {k \in 1..Len(s) : ~IsSpace(s[k])}
    IN IF ink = {} THEN <<>>
       ELSE SubSeq(s, CHOOSE k \in ink : \A j \in ink : k <= j,
                      CHOOSE k \in ink : \A j \in ink : k >= j)

minValidationLength == 20

\* ----------------------------------------------------------- validator
\* strings.EqualFold on language codes: ASCII letters compare without
\* regard to case.
Folded(b) == IF b >= 65 /\ b <= 90 THEN b + 32 ELSE b

EqualFold(s, t) ==
    /\ Len(s) = Len(t)
    /\ \A i \in 1..Len(s) : Folded(s[i]) = Folded(t[i])

\* (variant) the text is validated as it came, white space included.
ValidatedTextUntrimmed(translatedText) == translatedText

\* text := strings.TrimSpace(translatedText)
ValidatedText(translatedText) == TrimSpace(translatedText)

\* IsValid(translatedText, targetLang), with detection the answer
\* (iso, ok) of v.det.DetectISO for the text.
IsValid(translatedText, targetLang, detection) ==
    LET text == ValidatedText(translatedText)
    IN IF targetLang = <<>> THEN [valid |-> TRUE, err |-> FALSE]
       ELSE IF text = <<>> THEN [valid |-> FALSE, err |-> TRUE]
       ELSE IF Len(ToRunes(text)) < minValidationLength
       THEN [valid |-> TRUE, err |-> FALSE]
       ELSE IF ~detection.ok THEN [valid |-> TRUE, err |-> FALSE]
       ELSE IF ~EqualFold(detection.iso, targetLang)
       THEN [valid |-> FALSE, err |-> TRUE]
       ELSE [valid |-> TRUE, err |-> FALSE]

\* ---------------------------------------------------- validator inputs
LangEn == <<101, 110>>
LangUk == <<117, 107>>

\* n times the bytes of one character.
RECURSIVE Repeated(_, _)
Repeated(char, n) == IF n = 0 THEN <<>> ELSE char \o Repeated(char, n - 1)

\* Empty, white space only, short, and texts of one code point less than,
\* exactly and twice the detection threshold (in letters of one byte and
\* of two bytes, bare and inside white space).
Translations ==
    {<<>>, <<32, 32, 32>>, <<10, 9>>, <<72, 105>>,
     Repeated(<<97>>, minValidationLength - 1),
     Repeated(<<97>>, minValidationLength),
     <<32>> \o Repeated(<<97>>, minValidationLength - 1) \o <<10>>,
     <<32>> \o Repeated(<<97>>, minValidationLength),
     Repeated(<<195, 169>>, minValidationLength \div 2),
     Repeated(<<195, 169>>, minValidationLength)}

\* "", en, EN, uk, Uk
TargetLangs == {<<>>, LangEn, <<69, 78>>, LangUk, <<85, 107>>}

\* The detector cannot tell, or names a language by its ISO 639-1 code.
Detections ==
    {[ok |-> FALSE, iso |-> <<>>], [ok |-> TRUE, iso |-> LangEn],
     [ok |-> TRUE, iso |-> LangUk]}

InitValidator ==
    /\ NoOrchestrator
    /\ NewDatabase
    /\ csv = CsvIdle
    /\ translate = TranslateIdle
    /\ \E x \in Translations, lang \in TargetLangs, d \in Detections :
         args = [op |-> "input", translatedText |-> x, targetLang |-> lang,
                 detection |-> d]
    /\ ret = NoRet
    /\ nops = 0

CallIsValid ==
    /\ args.op = "input"
    /\ args' = [args EXCEPT !.op = "IsValid"]
    /\ ret' = IsValid(args.translatedText, args.targetLang, args.detection)
    /\ nops' = nops + 1
    /\ UNCHANGED <<database, csv, translate>>
    /\ UNCHANGED orchestratorVars

NextValidator == CallIsValid

SpecValidator == InitValidator /\ [][NextValidator]_vars

\* ------------------------------------------------ validator properties
\* The translated text is empty or white space only.
Blank(s) == \A i \in 1..Len(s) : IsSpace(s[i])

\* The detector was confident about a text long enough to be put to it,
\* and the language it named is not targetLang, whatever the case of the
\* letters.
DetectedOther ==
    /\ Len(ToRunes(Trimmed(args.translatedText))) >= 20
    /\ args.detection.ok
    /\ [i \in 1..Len(args.detection.iso) |-> Folded(args.detection.iso[i])]
         # [i \in 1..Len(args.targetLang) |-> Folded(args.targetLang[i])]

\* C29 as stated: IsValid returns (false, error) whenever the translated
\* text is empty or white space only, and whenever a confidently detected
\* language differs from targetLang under case-insensitive comparison.
C29_AsStated ==
    (args.op = "IsValid" /\ (Blank(args.translatedText) \/ DetectedOther)) =>
      (~ret.valid /\ ret.err)

\* C29: when targetLang is not empty, IsValid returns (false, error)
\* whenever the translated text is empty or white space only, and whenever
\* a confidently detected language differs from targetLang under
\* case-insensitive comparison; when targetLang is empty it returns
\* (true, nil) whatever the text.
C29_InvalidWhenTargetLangGiven ==
    args.op = "IsValid" =>
      /\ (args.targetLang # <<>> /\ (Blank(args.translatedText) \/ DetectedOther))
           => (~ret.valid /\ ret.err)
      /\ args.targetLang = <<>> => (ret.valid /\ ~ret.err)

\* A white-space-only translation is refused when a target language is
\* given.
C29_Witness ==
    /\ args.op = "IsValid"
    /\ args.translatedText = <<32, 32, 32>>
    /\ args.targetLang = LangEn
    /\ ~ret.valid
    /\ ret.err

\* ------------------------------------- cancellation before Execute
\* Provider p was invoked exactly once, its attempt returned a text, and
\* the text was accepted: it passed validation, or there is no validator,
\* or the attempt was the only one allowed.
FirstAttemptAccepted(p) ==
    /\ tasks[p].calls = 1
    /\ tasks[p].lastKind = "text"
    /\ tasks[p].lastValid \/ config.SkipValidation \/ config.MaxAttempts = 1

\* Provider p is aggregated as a success: one entry in Results, none in
\* Errors.
AggregatedAsSuccess(p) ==
    /\ Cardinality({i \in 1..Len(result.Results) : result.Results[i].svc = p}) = 1
    /\ \A i \in 1..Len(result.Errors) : result.Errors[i].svc # p

\* C30: when the cancellation signal is already set before Execute is
\* called, every configured provider is still invoked exactly once, and a
\* first attempt that returns an accepted result is aggregated as a
\* success despite the cancellation.
C30_CancelledBeforeExecute ==
    []((mainPc = "idle" /\ ctxDone) =>
         [](mainPc = "returned" =>
              \A p \in 1..services :
                 /\ tasks[p].calls = 1
                 /\ FirstAttemptAccepted(p) => AggregatedAsSuccess(p)))

\* Execute has returned under a cancelled ctx with two providers allowed
\* two attempts each, both invoked once: the first failed and was stopped
\* in its wait, the second returned a valid text and counts as a success.
C30_Witness ==
    /\ mainPc = "returned"
    /\ ctxDone
    /\ services = 2
    /\ config.MaxAttempts = 2
    /\ ~config.SkipValidation
    /\ tasks[1].calls = 1
    /\ tasks[1].err.kind = "cancelled"
    /\ FirstAttemptAccepted(2)
    /\ AggregatedAsSuccess(2)
    /\ result.Succeeded = 1
    /\ result.Failed = 1

\* --------------------------------------------- the split point of findSplit
\* Where pattern pat occurs among the code points w, counted from 0.
Occurrences(w, pat) ==
    {j \in 0..(Len(w) - Len(pat)) : SubSeq(w, j + 1, j + Len(pat)) = pat}

Last(places) == CHOOSE j \in places : \A k \in places : k <= j

\* The number of code points before the split point the stated preference
\* order chooses in the window w.
PreferredSplit(w) ==
    LET para == Occurrences(w, <<10, 10>>)
        paraCR == Occurrences(w, <<13, 10, 13, 10>>)
        marks == {j \in 0..(Len(w) - 2) :
                    w[j + 1] \in {46, 33, 63} /\ IsSpace(w[j + 2])}
        spaces == {j \in 0..(Len(w) - 1) : IsSpace(w[j + 1])}
    IN IF para # {} THEN Last(para) + 2
       ELSE IF paraCR # {} THEN Last(paraCR) + 4
       ELSE IF marks # {} THEN Last(marks) + 1
       ELSE IF spaces # {} THEN Last(spaces)
       ELSE Len(w)

\* The bytes the first k code points of text take in text.
BytesOfLeading(text, k) ==
    LET runes == ToRunes(text)
    IN CHOOSE b \in 0..Len(text) :
         /\ ToRunes(SubSeq(text, 1, b)) = SubSeq(runes, 1, k)
         /\ ToRunes(SubSeq(text, b + 1, Len(text))) = SubSeq(runes, k + 1, Len(runes))

\* C35: when the remaining text exceeds maxChars, the split point chosen in
\* its leading window of maxChars code points is right after the last
\* paragraph break (\n\n, else \r\n\r\n) if the window has one, otherwise
\* right after the last sentence mark that white space follows, otherwise
\* right before the last white space, otherwise at maxChars code points.
C35_SplitFollowsPreference ==
    args.op = "findSplit" =>
      ret.split = BytesOfLeading(args.text,
                     PreferredSplit(SubSeq(ToRunes(args.text), 1, args.n)))

\* ------------------------------------------ what Chunk keeps of the text
\* s without its white space.
RECURSIVE Inked(_)
Inked(s) ==
    IF s = <<>> THEN <<>>
    ELSE IF IsSpace(s[1]) THEN Inked(Tail(s))
    ELSE <<s[1]>> \o Inked(Tail(s))

RECURSIVE Concatenated(_)
Concatenated(chunks) ==
    IF chunks = <<>> THEN <<>> ELSE chunks[1] \o Concatenated(Tail(chunks))

\* C40: for every text and every maxChars, the chunks of Chunk(text,
\* maxChars) concatenated in order, white space deleted, are exactly the
\* text with its white space deleted.
C40_ChunksKeepEveryCharacter ==
    args.op = "Chunk" =>
      /\ ~ret.panic
      /\ Inked(Concatenated(ret.chunks)) = Inked(args.text)

\* ======================================================================
\* Chunk step by step: one action per loop iteration, the frame in ret.
\* ======================================================================

\* Entry of Chunk: the early return, or the loop with remaining := text.
ChunkEnter(text, maxChars) ==
    /\ args' = [op |-> "ChunkLoop", text |-> text, n |-> maxChars]
    /\ ret' = IF maxChars <= 0 \/ Len(ToRunes(text)) <= maxChars
              THEN [err |-> FALSE, pc |-> "returned", remaining |-> <<>>,
                    chunks |-> <<text>>, iterations |-> 0, split |-> 0,
                    before |-> Len(text)]
              ELSE [err |-> FALSE, pc |-> "loop", remaining |-> text,
                    chunks |-> <<>>, iterations |-> 0, split |-> 0,
                    before |-> Len(text)]
    /\ nops' = nops + 1
    /\ UNCHANGED <<database, csv, translate>>
    /\ UNCHANGED orchestratorVars

\* One iteration of "for len([]rune(remaining)) > maxChars".
ChunkIterate ==
    /\ args.op = "ChunkLoop"
    /\ ret.pc = "loop"
    /\ Len(ToRunes(ret.remaining)) > args.n
    /\ LET split == findSplit(ret.remaining, args.n)
       IN ret' = IF split > Len(ret.remaining)
                 THEN [ret EXCEPT !.pc = "panic", !.split = split,
                                  !.iterations = @ + 1,
                                  !.before = Len(ret.remaining)]
                 ELSE [ret EXCEPT
                         !.chunks = Appended(@, TrimSpace(SubSeq(ret.remaining, 1, split))),
                         !.remaining = TrimSpace(SubSeq(@, split + 1, Len(@))),
                         !.split = split,
                         !.iterations = @ + 1,
                         !.before = Len(ret.remaining)]
    /\ nops' = nops + 1
    /\ UNCHANGED args
    /\ UNCHANGED <<database, csv, translate>>
    /\ UNCHANGED orchestratorVars

\* The loop condition fails: the remainder is appended and Chunk returns.
ChunkReturn ==
    /\ args.op = "ChunkLoop"
    /\ ret.pc = "loop"
    /\ Len(ToRunes(ret.remaining)) <= args.n
    /\ ret' = [ret EXCEPT !.pc = "returned",
                          !.chunks = Appended(@, TrimSpace(ret.remaining))]
    /\ nops' = nops + 1
    /\ UNCHANGED args
    /\ UNCHANGED <<database, csv, translate>>
    /\ UNCHANGED orchestratorVars

InitChunkLoop ==
    /\ NoOrchestrator
    /\ StoreOpened

NextChunkLoop ==
    \/ /\ args = NoCall
       /\ \E text \in PieceTexts(MaxPieces), maxChars \in Sizes :
            ChunkEnter(text, maxChars)
    \/ ChunkIterate
    \/ ChunkReturn

\* A step of the loop of Chunk, whatever it does to the frame.
LoopStep ==
    /\ args.op = "ChunkLoop"
    /\ ret.pc = "loop"
    /\ nops' = nops + 1

\* The goroutine that runs Chunk keeps running once it has entered it.
SpecChunkLoop ==
    InitChunkLoop /\ [][NextChunkLoop]_vars /\ WF_nops(LoopStep)

\* C36: Chunk terminates for every text and every maxChars > 0: in each
\* iteration the split index is strictly positive and the remainder
\* strictly shrinks, until its code-point count is at most maxChars and it
\* is appended as the last chunk if not empty after trimming.
C36_ChunkTerminates ==
    /\ []((args.op = "ChunkLoop" /\ ret.iterations > 0) =>
            (ret.split > 0 /\ (ret.pc # "panic" => Len(ret.remaining) < ret.before)))
    /\ (args.op = "ChunkLoop" /\ args.n > 0)
         ~> (args.op = "ChunkLoop" /\ ret.pc = "returned")

\* ======================================================================
\* The length pre-filter of the fuzzy lookup
\* ======================================================================
TextA == <<97>>
TextABCD == <<97, 98, 99, 100>>

\* The fuzzy lookup over entries of one language pair whose source texts
\* have 1, 2 and 4 code points (one of them 3 bytes long), so that the
\* pre-filter skips some and scores others; the thresholds and all the
\* similarities between these texts are dyadic.
NextPrefilter ==
    \/ \E x \in {TextAB, TextAE, TextABCD} :
         SaveToMemory(now + 1, x, "en", "uk", "F1", "D1", "google")
    \/ \E x \in {TextA, TextAB, TextABCD}, th \in {Half, Frac(3, 4), One} :
         FuzzyGetCachedTranslation(x, "en", "uk", th)

SpecPrefilter == InitStore /\ [][NextPrefilter]_vars

\* The rows of the scan of call a, in the order scanned.
ScannedRows(a) ==
    [i \in DOMAIN a.scanned |-> CHOOSE r \in memory : r.id = a.scanned[i]]

\* The scan that scores every candidate: best = (bestScore, bestFinal)
\* after the rows f[i..].
RECURSIVE ScoreAll(_, _, _, _, _)
ScoreAll(f, i, query, threshold, best) ==
    IF i > Len(f) THEN best
    ELSE LET score == stringSimilarity(query, f[i].source_text)
         IN IF ~FracLess(score, threshold) /\ FracLess(best.bestScore, score)
            THEN ScoreAll(f, i + 1, query, threshold,
                          [bestScore |-> score, bestFinal |-> f[i].final_text])
            ELSE ScoreAll(f, i + 1, query, threshold, best)

\* The length bound 1 - |la - lb| / max(la, lb) of a and b is below
\* threshold.
LengthBoundBelow(a, b, threshold) ==
    LET la == Len(Runes(a))
        lb == Len(Runes(b))
        maxL == IF la > lb THEN la ELSE lb
        diff == IF la > lb THEN la - lb ELSE lb - la
    IN maxL > 0 /\ (maxL - diff) * threshold.d < threshold.n * maxL

\* C38: for every query, candidate and threshold in (0,1], a candidate the
\* length pre-filter skips has similarity below the threshold, so
\* FuzzyGetCachedTranslation returns what a scan that scores every
\* candidate returns.
C38_PrefilterSound ==
    [][(Called("FuzzyGetCachedTranslation")
          /\ FracLess(Zero, args'.threshold)
          /\ ~FracLess(One, args'.threshold))
         => LET query == Canonical(args'.sourceText)
                f == ScannedRows(args')
                best == ScoreAll(f, 1, query, args'.threshold,
                                 [bestScore |-> Zero, bestFinal |-> ""])
            IN /\ \A i \in DOMAIN f :
                    LengthBoundBelow(query, f[i].source_text, args'.threshold)
                      => FracLess(stringSimilarity(query, f[i].source_text),
                                  args'.threshold)
               /\ ret' = IF best.bestFinal # "" THEN Found(best.bestFinal)
                         ELSE NotFound
      ]_vars

\* A lookup for "ab" at threshold 3/4 has scanned the entry "abcd", which
\* the pre-filter skips (length bound 1/2), and has found nothing.
C38_Witness ==
    /\ args.op = "FuzzyGetCachedTranslation"
    /\ args.sourceText = TextAB
    /\ args.threshold = Frac(3, 4)
    /\ Len(args.scanned) = 1
    /\ \E r \in memory : r.id = args.scanned[1] /\ r.source_text = TextABCD
    /\ ~ret.found

\* C37: SaveToMemory for key K never removes or alters a translation-memory
\* entry stored under a different key, whatever the saves before it, also
\* when two saves obtain the same generated identity.
C37_SaveLeavesOtherKeys ==
    [][Called("SaveToMemory")
         => \A r \in memory : MemKey(r) # KeyOf(args') => r \in memory'
      ]_vars

\* The step ends a csv run that holds a checkpoint before the command has
\* completed it: the process is killed, or the output cannot be written.
EndsEarly ==
    /\ csv.pc \notin {"idle", "done", "failed", "crashed", "getCheckpoint"}
    /\ csv.checkpointID # NoId
    /\ csv'.pc \in {"crashed", "failed"}

\* The cells table holds, for checkpoint cp, exactly the texts last saved.
HoldsSavedCells(cp) ==
    {<<r.row_idx, r.col_idx, r.translated_text>> :
        r \in {c \in cells' : c.checkpoint_id = cp}} =
    {<<k[2], k[3], savedCells'[k]>> :
        k \in {j \in DOMAIN savedCells' : j[1] = cp}}

\* A step changes the status of a checkpoint only when it is the completion
\* of the run's own checkpoint, after the loop has passed every row and the
\* output has been written; a checkpoint starts in status running.
StatusOnlyCompletedAfterOutput ==
    /\ \A r \in checkpoints, r2 \in checkpoints' :
          (r2.id = r.id /\ r2.status # r.status) =>
             /\ csv.pc = "complete"
             /\ csv.written
             /\ csv.rowIdx = Len(csv.records)
             /\ csv.checkpointID = r.id
             /\ r2.status = "completed"
    /\ \A r2 \in checkpoints' :
          (\A r \in checkpoints : r.id # r2.id) => r2.status = "running"

\* C39 as stated: a checkpoint is marked completed only after every row and
\* column has been processed and the output written, and a run that crashes
\* or returns an error earlier leaves its checkpoint in status running with
\* exactly the cells saved so far.
C39_AsStated ==
    [][/\ StatusOnlyCompletedAfterOutput
       /\ EndsEarly =>
            /\ \E r \in checkpoints' :
                  r.id = csv.checkpointID /\ r.status = "running"
            /\ HoldsSavedCells(csv.checkpointID)]_vars

\* What every run keeps: a checkpoint is marked completed only by the run
\* that has processed every row and column and written its output, and a
\* run that crashes or returns an error earlier leaves the status of the
\* checkpoint it writes to as it was, with exactly the cells saved so far.
CompletedOnlyAfterOutput ==
    [][/\ StatusOnlyCompletedAfterOutput
       /\ EndsEarly =>
            /\ checkpoints' = checkpoints
            /\ \E r \in checkpoints' :
                  r.id = csv.checkpointID /\ r.status \in {"running", "completed"}
            /\ HoldsSavedCells(csv.checkpointID)]_vars


\* ------------------------------------------------ termination of Execute
\* Execute under a fair scheduler, with provider calls that return and
\* timers that fire: every goroutine that can take its next step takes it.
\* The caller is not obliged to call Execute or to cancel.
SpecFair ==
    /\ Init
    /\ [][Next]_vars
    /\ WF_vars(SpawnTask)
    /\ WF_vars(SpawnCloser)
    /\ WF_vars(CloserClose)
    /\ \A p \in Providers : WF_vars(Attempt(p))
    /\ \A p \in Providers : WF_vars(WaitTimer(p) \/ WaitCancelled(p))
    /\ WF_vars(Receive)
    /\ WF_vars(Return)

\* The step is a send on ch.
Sends == Len(ch') > Len(ch)

\* The step is close(ch).
Closes == closerPc = "waiting" /\ closerPc' = "done"

\* C31: Execute terminates and never deadlocks. With provider calls that
\* return, for zero or more providers and any outcomes: every send on the
\* completion channel finds it open and with room, so it does not block;
\* the channel is closed once, when every worker has sent; and a call of
\* Execute leads to its return, with the channel closed.
C31_ExecuteTerminates ==
    /\ [][/\ Sends => (~chClosed /\ Len(ch) < services)
          /\ Closes =>
                /\ ~chClosed /\ chClosed'
                /\ spawned = services
                /\ \A p \in Configured : tasks[p].pc = "done"
          /\ chClosed => chClosed'
          /\ chClosed' /\ ~chClosed => Closes]_vars
    /\ [](mainPc = "returned" => chClosed /\ closerPc = "done")
    /\ (mainPc = "spawn") ~> (mainPc = "returned")

\* Execute has returned after two workers sent their outcomes, one of them
\* after a retry, and the channel was closed.
C31_Witness ==
    /\ mainPc = "returned"
    /\ services = 2
    /\ chClosed
    /\ Len(result.Results) + Len(result.Errors) = 2
    /\ \E p \in Configured : tasks[p].calls >= 2

\* ------------------------------------ one store shared by two goroutines
\* GetCachedTranslation statement by statement. Its SELECT: the row of the
\* key, if any, is scanned into finalText and invalidated.
GetCachedSelect(sourceText, sourceLang, targetLang) ==
    LET key == <<normalizeText(sourceText), sourceLang, targetLang>>
        selected == {r \in memory : MemKey(r) = key}
        a == [op |-> "GetCachedTranslation", sourceText |-> sourceText,
              sourceLang |-> sourceLang, targetLang |-> targetLang]
    IN /\ Ready
       /\ inFlight = NoCall
       /\ \/ /\ selected = {}
             /\ inFlight' = [op |-> "GetCachedTranslation", a |-> a,
                             key |-> key, rows |-> {}]
          \/ \E r \in selected :
                inFlight' = [op |-> "GetCachedTranslation", a |-> a,
                             key |-> key, rows |-> {r}]
       /\ UNCHANGED <<now, memory, stage1, checkpoints, hits, cells, savedCells>>
       /\ UNCHANGED <<args, ret, nops, csv, translate>>
       /\ UNCHANGED orchestratorVars

\* The rest of GetCachedTranslation: no row or an invalidated row returns
\* not found; otherwise the UPDATE by key, and the text scanned is returned.
GetCachedUpdate(t) ==
    /\ inFlight # NoCall
    /\ inFlight' = NoCall
    /\ nops' = nops + 1
    /\ args' = inFlight.a
    /\ csv' = csv
    /\ translate' = translate
    /\ savedCells' = savedCells
    /\ \/ /\ \A r \in inFlight.rows : ~Served(r)
          /\ ret' = NotFound
          /\ hits' = hits
          /\ UNCHANGED <<now, memory>>
       \/ \E r \in inFlight.rows :
            /\ Served(r)
            /\ t \in Readings
            /\ now' = t
            /\ memory' = {IF MemKey(x) = inFlight.key THEN HitUpdate(x, t)
                          ELSE x : x \in memory}
            /\ ret' = Found(r.final_text)
            /\ hits' = Counted(inFlight.a, Found(r.final_text))
    /\ UNCHANGED <<stage1, checkpoints, cells>>
    /\ UNCHANGED orchestratorVars

\* One goroutine looks a key up while another saves, invalidates and
\* deletes entries of that key through the same *Store.
NextShared ==
    \/ GetCachedSelect(TextAB, "en", "uk")
    \/ \E t \in Readings : GetCachedUpdate(t)
    \/ \E f \in {"F1", "F2"} :
         SaveToMemory(now + 1, TextAB, "en", "uk", f, "D1", "google")
    \/ \E id \in KnownIds : InvalidateMemory(id)
    \/ \E id \in KnownIds : DeleteMemory(id)

SpecShared == InitStore /\ [][NextShared]_vars

\* The step is the return of a GetCachedTranslation that found its key.
ReturnsHit == inFlight # NoCall /\ inFlight' = NoCall /\ ret'.found

\* The rows whose usage count the step has incremented.
Incremented ==
    {x \in memory' : \E r \in memory :
        /\ r.id = x.id
        /\ MemKey(r) = MemKey(x)
        /\ x.usage_count = r.usage_count + 1}

\* C32: a GetCachedTranslation that runs while another caller saves,
\* invalidates or deletes the same key behaves as if it ran entirely before
\* or entirely after that operation: the final text it returns and the
\* usage count it increments belong to the same version of the entry.
C32_LookupIsAtomic ==
    [][ReturnsHit =>
         \A x \in Incremented : x.final_text = ret'.text]_vars

\* ------------------------------------------- arbiter, refiner, persistence
\* What follows orch.Execute in translateCmd.RunE for one chunk: results are
\* result.Results as texts, eval what arb.Evaluate returned and refined what
\* ref.Refine returned. The draft is the arbiter's text when it has run
\* without error, and the first result otherwise.
TranslateOutcome(results, useArbiter, eval, useRefine, refined) ==
    LET arbitrated == useArbiter /\ Len(results) > 1 /\ ~eval.err
        draftText == IF arbitrated THEN eval.CompositeText ELSE results[1]
        chunkTranslation == IF useRefine /\ ~refined.err THEN refined.text
                            ELSE draftText
    IN IF Len(results) = 0
       THEN [succeeded |-> 0, draft |-> <<>>, translated |-> <<>>,
             first |-> <<>>, composed |-> FALSE, composite |-> <<>>]
       ELSE [succeeded |-> Len(results), draft |-> draftText,
             translated |-> chunkTranslation, first |-> results[1],
             composed |-> arbitrated,
             composite |-> IF arbitrated THEN eval.CompositeText ELSE <<>>]

\* (variant) the csv command persists the arbiter's text as the draft.
CsvOutcomeDraftFromArbiter(results, useArbiter, eval, useRefine, refined) ==
    TranslateOutcome(results, useArbiter, eval, useRefine, refined)

\* What follows orch.Execute in csvCmd.RunE for one cell: the text put in
\* the output is the first result, replaced by the arbiter's and then by
\* the refiner's; the draft persisted is the first result.
CsvOutcome(results, useArbiter, eval, useRefine, refined) ==
    LET arbitrated == useArbiter /\ Len(results) > 1 /\ ~eval.err
        chosen == IF arbitrated THEN eval.CompositeText ELSE results[1]
        translated == IF useRefine /\ ~refined.err THEN refined.text
                      ELSE chosen
    IN IF Len(results) = 0
       THEN [succeeded |-> 0, draft |-> <<>>, translated |-> <<>>,
             first |-> <<>>, composed |-> FALSE, composite |-> <<>>]
       ELSE [succeeded |-> Len(results), draft |-> results[1],
             translated |-> translated, first |-> results[1],
             composed |-> arbitrated,
             composite |-> IF arbitrated THEN eval.CompositeText ELSE <<>>]

\* The text an arbiter composes of several results.
TextC1 == <<67, 49>>

\* result.Results of one Execute: no, one or two services succeeded.
ResultLists == {<<>>, <<TextD1>>, <<TextD1, TextF1>>}

\* What arb.Evaluate returns: an error, a composed text, the text of the
\* second result selected as it is.
Evaluations ==
    {[err |-> TRUE, CompositeText |-> <<>>],
     [err |-> FALSE, CompositeText |-> TextC1],
     [err |-> FALSE, CompositeText |-> TextF1]}

\* What ref.Refine returns: an error, a refined text.
Refinements == {[err |-> TRUE, text |-> <<>>], [err |-> FALSE, text |-> TextF2]}

\* Runs of the translate and of the csv command with a database, with and
\* without --arbiter and --refine.
NextArbiter ==
    \/ \E refine \in BOOLEAN : TranslateBegin(TextAB, TRUE, Zero, refine)
    \/ TranslateLookup
    \/ /\ translate.pc = "execute"
       /\ \E rs \in ResultLists, ua \in BOOLEAN, ev \in Evaluations,
             rf \in Refinements :
            TranslateExecute(TranslateOutcome(rs, ua, ev, translate.useRefine, rf))
    \/ TranslateSaveMemory
    \/ TranslateSaveStage1
    \/ TranslateWrite
    \/ CsvBegin(<<<<TextAC>>>>, {}, TRUE, NoId)
    \/ CsvCreateCheckpoint
    \/ CsvLoop
    \/ CsvLookup
    \/ /\ csv.pc = "execute"
       /\ \E rs \in ResultLists, ua \in BOOLEAN, ev \in Evaluations,
             ur \in BOOLEAN, rf \in Refinements :
            CsvExecute(CsvOutcome(rs, ua, ev, ur, rf))
    \/ CsvSaveMemory
    \/ CsvSaveCell
    \/ CsvWrite
    \/ CsvComplete

SpecArbiter == InitStore /\ [][NextArbiter]_vars

\* The step is a save of a draft by the translate command (by the csv
\* command) after an arbiter has composed the text of several results.
TranslateSavesComposed ==
    /\ translate.pc \in {"saveMemory", "saveStage1"}
    /\ translate.composed
    /\ Called("SaveToMemory") \/ Called("SaveToStage1Cache")

CsvSavesComposed ==
    /\ csv.pc = "saveMemory"
    /\ csv.composed
    /\ Called("SaveToMemory")

\* The draft texts the store holds for the key of the call just made.
PersistedDrafts(rows) ==
    {r.draft_text : r \in {x \in rows : MemKey(x) = KeyOf(args')}}

\* C34 as stated: whenever an arbiter has composed a result from several
\* successful provider results, the draft persisted in the translation
\* memory and in the stage-1 cache is Results[0].TranslatedText.
C34_AsStated ==
    [][/\ TranslateSavesComposed => args'.draftText = translate.first
       /\ CsvSavesComposed => args'.draftText = csv.first]_vars

\* C34, amended: when an arbiter has composed a result from several
\* successful provider results, the csv command persists the first
\* provider's raw output Results[0].TranslatedText as the draft of the
\* translation-memory entry, while the translate command persists the
\* arbiter's composed text as the draft of the translation-memory entry and
\* of the stage-1 cache entry.
C34_DraftPersisted ==
    [][/\ TranslateSavesComposed =>
            /\ args'.draftText = translate.composite
            /\ Called("SaveToMemory") =>
                  PersistedDrafts(memory') = {translate.composite}
            /\ Called("SaveToStage1Cache") =>
                  PersistedDrafts(stage1') = {translate.composite}
       /\ CsvSavesComposed =>
            /\ args'.draftText = csv.first
            /\ PersistedDrafts(memory') = {csv.first}]_vars

\* The csv command has saved a cell whose text the arbiter composed, with
\* the first result as the draft; before it, the translate command had
\* saved the text an arbiter composed, which is not the first result, as
\* the draft of its memory entry and of its stage-1 entry.
C34_Witness ==
    /\ args.op = "SaveToMemory"
    /\ csv.pc = "saveCell"
    /\ csv.composed
    /\ csv.first = TextD1
    /\ csv.translated = TextC1
    /\ args.draftText = TextD1
    /\ translate.pc = "done"
    /\ translate.composed
    /\ translate.first = TextD1
    /\ \E r \in stage1 : r.source_text = TextAB /\ r.draft_text = TextC1
    /\ \E r \in memory : r.source_text = TextAB /\ r.draft_text = TextC1

\* ----------------------------------------- the chunk loop of translate
\* (variant) the sliding context is taken from the draft.
NextContextFromDraft(draftText, chunkTranslation) ==
    ExtractContext(draftText, DefaultContextWords)

\* previousContext for the next chunk.
NextContext(draftText, chunkTranslation) ==
    ExtractContext(chunkTranslation, DefaultContextWords)

\* strings.Join(translatedChunks, "\n\n")
RECURSIVE JoinChunks(_)
JoinChunks(chunks) ==
    IF chunks = <<>> THEN <<>>
    ELSE IF Len(chunks) = 1 THEN chunks[1]
    ELSE chunks[1] \o <<10, 10>> \o JoinChunks(Tail(chunks))

\* translateCmd.RunE with --no-cache up to the chunk loop: the text is
\* split by chunker.Chunk, which may panic.
ChunkedBegin(text, chunkSize, useRefine) ==
    LET c == Chunk(text, chunkSize)
    IN /\ translate.pc \in {"idle", "done", "failed", "panicked"}
       /\ csv.pc = "idle"
       /\ translate.runs < MaxRuns
       /\ translate' = [pc |-> IF c.panic THEN "panicked"
                               ELSE IF c.chunks = <<>> THEN "write"
                               ELSE "request",
                        runs |-> translate.runs + 1,
                        text |-> text, db |-> FALSE, useRefine |-> useRefine,
                        chunks |-> IF c.panic THEN <<>> ELSE c.chunks,
                        i |-> 0, previousContext |-> <<>>,
                        requests |-> <<>>, translatedChunks |-> <<>>,
                        output |-> <<>>, events |-> {}]
       /\ UNCHANGED <<database, args, ret, nops, csv>>
       /\ UNCHANGED orchestratorVars

\* The loop body up to the call of orch.Execute: the request of chunk i.
ChunkedRequest ==
    /\ translate.pc = "request"
    /\ translate' =
         [translate EXCEPT
            !.requests = Append(@, [Text |-> translate.chunks[translate.i + 1],
                                    PreviousContext |-> translate.previousContext]),
            !.pc = "execute"]
    /\ UNCHANGED <<database, args, ret, nops, csv>>
    /\ UNCHANGED orchestratorVars

\* orch.Execute has returned for chunk i; the arbiter and the refiner run
\* if enabled, the context is updated and the translation appended.
ChunkedExecute(o) ==
    /\ translate.pc = "execute"
    /\ translate' =
         IF o.succeeded = 0
         THEN [Did(translate, "failed") EXCEPT !.pc = "failed"]
         ELSE [Did(translate, "execute") EXCEPT
                 !.previousContext = NextContext(o.draft, o.translated),
                 !.translatedChunks = Append(@, o.translated),
                 !.i = @ + 1,
                 !.pc = IF translate.i + 1 < Len(translate.chunks)
                        THEN "request" ELSE "write"]
    /\ UNCHANGED <<database, args, ret, nops, csv>>
    /\ UNCHANGED orchestratorVars

\* writeOutput of the join of the translated chunks.
ChunkedWrite ==
    /\ translate.pc = "write"
    /\ translate' = WriteOutput(translate, JoinChunks(translate.translatedChunks))
    /\ UNCHANGED <<database, args, ret, nops, csv>>
    /\ UNCHANGED orchestratorVars

\* A translation of 26 words, one more than DefaultContextWords.
ManyWords == [k \in 1..(2 * DefaultContextWords + 1) |-> IF k % 2 = 1 THEN 97 ELSE 32]

\* Translations with white space around them.
TextSpaced == <<32, 70, 49, 32, 10>>

\* Inputs of one, two and three chunks, one on which Chunk panics.
ChunkedInputs ==
    {<<TextAB, 0>>, <<<<97, 32, 98>>, 1>>, <<<<97, 32, 98, 46, 99>>, 1>>,
     <<<<195, 97>>, 1>>}

\* What the refiner returns for a chunk.
ChunkRefinements ==
    {[err |-> TRUE, text |-> <<>>], [err |-> FALSE, text |-> ManyWords],
     [err |-> FALSE, text |-> TextSpaced]}

NextChunked ==
    \/ \E inp \in ChunkedInputs, refine \in BOOLEAN :
         ChunkedBegin(inp[1], inp[2], refine)
    \/ ChunkedRequest
    \/ /\ translate.pc = "execute"
       /\ \E rs \in ResultLists, ua \in BOOLEAN, ev \in Evaluations,
             rf \in ChunkRefinements :
            ChunkedExecute(TranslateOutcome(rs, ua, ev, translate.useRefine, rf))
    \/ ChunkedWrite

SpecChunked == InitStore /\ [][NextChunked]_vars

\* The translate command is in its chunk loop or past it.
InChunks == translate.pc \in {"request", "execute", "write", "done", "failed"}

\* C33: chunks are translated one at a time in input order: the request of
\* chunk i+1 is made only when the translation of chunk i, with its
\* arbitration and refinement, has finished; it carries as previous
\* context exactly ExtractContext(final translation of chunk i, 25), and
\* the request of the first chunk carries an empty context.
C33_SequentialWithContext ==
    InChunks =>
      LET rq == translate.requests
          done == translate.translatedChunks
      IN /\ Len(rq) = IF translate.pc \in {"execute", "failed"}
                      THEN Len(done) + 1 ELSE Len(done)
         /\ Len(rq) <= Len(translate.chunks)
         /\ \A k \in DOMAIN rq :
               /\ rq[k].Text = translate.chunks[k]
               /\ rq[k].PreviousContext =
                    IF k = 1 THEN <<>> ELSE ExtractContext(done[k - 1], 25)

\* The request of the third chunk is out: the second chunk's translation
\* was refined to 26 words, of which the request carries the last 25.
C33_Witness ==
    /\ translate.pc = "execute"
    /\ Len(translate.requests) = 3
    /\ translate.translatedChunks[2] = ManyWords
    /\ Len(Fields(translate.requests[3].PreviousContext)) = DefaultContextWords
    /\ translate.requests[2].PreviousContext # <<>>

====
